---- MODULE Spec2Model ----
(***************************************************************************)
(* Model of the web platform's GPU texture atlas                           *)
(* (src/src/platform/web/web_atlas.rs): the key -> tile cache, the         *)
(* per-kind texture lists with their rectangle allocators, the pending     *)
(* upload queue and the per-frame cache statistics; and of the frame       *)
(* renderer that draws from it (src/src/platform/web/renderer.rs).         *)
(***************************************************************************)
EXTENDS Integers, Sequences, FiniteSets, TLC

(***************************************************************************)
(* Bounds of the model.                                                    *)
(***************************************************************************)
\* total number of tile allocations (misses that reach allocate) explored
MaxAllocs == 2
\* cap of the per-frame hit and miss counters (u32 in the code)
MaxStat == 1

(***************************************************************************)
(* Program constants.                                                      *)
(***************************************************************************)
\* DEFAULT_ATLAS_SIZE, both dimensions
DEFAULT_ATLAS_SIZE == 1024
\* BucketIndex::INVALID of the rectangle allocator, as a 1-based index
INVALID == 0
\* u16::MAX, the initial best_waste of the allocator's shelf search
U16_MAX == 65535

\* the atlas keys the callers use: two monochrome glyphs and one polychrome
\* image
Keys == {1, 2, 3}
Kinds == {"Monochrome", "Polychrome"}
\* widths and heights a produce callback returns in the model
BuildSizes ==
    {[width |-> 0, height |-> 400], [width |-> 400, height |-> 400],
     [width |-> 1500, height |-> 400]}

\* AtlasKey::texture_kind: the kind is a function of the key
texture_kind(key) == IF key % 3 = 0 THEN "Polychrome" ELSE "Monochrome"

\* Option<T>
None == [some |-> FALSE]
Some(v) == [some |-> TRUE, val |-> v]

Max(a, b) == IF a >= b THEN a ELSE b
Min(a, b) == IF a <= b THEN a ELSE b

(***************************************************************************)
(* Rectangle allocator (etagere::BucketedAtlasAllocator with the default   *)
(* options: one column, alignment 1x1, horizontal shelves).  The atlas     *)
(* only ever calls new and allocate; it never deallocates.                 *)
(* An allocator is a record                                                *)
(*   [width, height, available_height, shelves, buckets]                   *)
(* shelves: sequence of [x, y, height, bucket_width, first_bucket]         *)
(* buckets: sequence of [x, free_space, refcount, shelf, next]             *)
(***************************************************************************)
\* Size::is_empty of the requested size
is_empty(size) == size.width <= 0 \/ size.height <= 0

\* BucketedAtlasAllocator::new
NewAllocator(size) ==
    [width |-> size.width, height |-> size.height,
     available_height |-> size.height, shelves |-> <<>>, buckets |-> <<>>]

\* shelf_height: round the shelf height up to a size-dependent alignment
shelf_height(size, atlas_height) ==
    LET alignment == IF size <= 31 THEN 8
                     ELSE IF size <= 127 THEN 16
                     ELSE IF size <= 511 THEN 32 ELSE 64
        rem == size % alignment
        adjusted == size + alignment - rem
    IN  IF rem > 0 /\ adjusted <= atlas_height THEN adjusted ELSE size

\* num_buckets: how many buckets a new shelf is split into
num_buckets(column_width, w, h) ==
    LET q == column_width \div Max(w, h)
    IN  IF q <= 4 THEN 1
        ELSE IF q <= 15 THEN 2
        ELSE IF q <= 64 THEN 4
        ELSE IF q <= 256 THEN 8 ELSE 16

\* the shelf search of allocate: walk one shelf's bucket chain from bucket b.
\* acc = [sel, best, done]: selected bucket, best waste so far, exact fit found
RECURSIVE scan_buckets(_, _, _, _, _)
scan_buckets(a, b, w, y_waste, acc) ==
    IF b = INVALID THEN acc
    ELSE LET bucket == a.buckets[b] IN
         IF bucket.free_space >= w
         THEN IF y_waste = 0 /\ bucket.free_space = w
              THEN [sel |-> b, best |-> acc.best, done |-> TRUE]
              ELSE IF y_waste < acc.best
                   THEN [sel |-> b, best |-> y_waste, done |-> FALSE]
                   ELSE scan_buckets(a, bucket.next, w, y_waste, acc)
         ELSE scan_buckets(a, bucket.next, w, y_waste, acc)

\* the shelf search of allocate: shelves in creation order from index i
RECURSIVE scan_shelves(_, _, _, _, _, _)
scan_shelves(a, i, w, h, can_add, acc) ==
    IF i > Len(a.shelves) \/ acc.done THEN acc
    ELSE LET shelf == a.shelves[i]
             y_waste == shelf.height - h
         IN  IF shelf.height < h \/ shelf.bucket_width < w
             THEN scan_shelves(a, i + 1, w, h, can_add, acc)
             ELSE IF y_waste > acc.best \/ (can_add /\ y_waste > h)
                  THEN scan_shelves(a, i + 1, w, h, can_add, acc)
                  ELSE scan_shelves(a, i + 1, w, h, can_add,
                           scan_buckets(a, shelf.first_bucket, w, y_waste, acc))

\* add_shelf: a new shelf below the last one, split into buckets; the
\* shelf's first bucket is the one created last
add_shelf(a, w, h) ==
    LET height == Min(shelf_height(h, a.height), a.available_height)
        nb == num_buckets(a.width, w, h)
        bucket_width == a.width \div nb
        y == a.height - a.available_height
        base == Len(a.buckets)
        shelf_ix == Len(a.shelves) + 1
        new_buckets == [i \in 1..nb |->
                          [x |-> (i - 1) * bucket_width,
                           free_space |-> bucket_width,
                           refcount |-> 0,
                           shelf |-> shelf_ix,
                           next |-> IF i = 1 THEN INVALID ELSE base + i - 1]]
    IN  [a EXCEPT !.available_height = @ - height,
                  !.buckets = @ \o new_buckets,
                  !.shelves = Append(@, [x |-> 0, y |-> y, height |-> height,
                                         bucket_width |-> bucket_width,
                                         first_bucket |-> base + nb])]

\* alloc_from_bucket: carve w from the left of the bucket's free space
alloc_from_bucket(a, b, w) ==
    LET bucket == a.buckets[b]
        shelf == a.shelves[bucket.shelf]
        min_x == bucket.x + shelf.bucket_width - bucket.free_space
    IN  [alloc |-> [a EXCEPT !.buckets[b].free_space = @ - w,
                             !.buckets[b].refcount = @ + 1],
         id |-> b,
         min |-> [x |-> min_x, y |-> shelf.y]]

\* BucketedAtlasAllocator::allocate: Some([alloc, id, min]) or None.
\* An empty request fails, as does one wider than the column or taller than
\* the atlas; with no deallocation there is no empty shelf to coalesce, so a
\* request that fits no bucket and no new shelf fails.
allocator_allocate(a, size) ==
    IF is_empty(size) \/ size.width > U16_MAX \/ size.height > U16_MAX
    THEN None
    ELSE IF size.width > a.width \/ size.height > a.height
    THEN None
    ELSE LET w == size.width
             h == size.height
             can_add == a.available_height >= h
             found == scan_shelves(a, 1, w, h, can_add,
                          [sel |-> INVALID, best |-> U16_MAX, done |-> FALSE])
         IN  IF found.sel # INVALID
             THEN Some(alloc_from_bucket(a, found.sel, w))
             ELSE IF can_add
                  THEN LET a2 == add_shelf(a, w, h)
                       IN  Some(alloc_from_bucket(a2,
                                   a2.shelves[Len(a2.shelves)].first_bucket, w))
                  ELSE None

(***************************************************************************)
(* State of one WebGpuAtlas.                                               *)
(***************************************************************************)
VARIABLES
    storage,       \* WebGpuAtlasStorage: kind -> [textures, free_list]
    tiles_by_key,  \* key -> Option<AtlasTile>
    uploads,       \* Vec<PendingUpload>
    stats,         \* CacheStats [hits, misses]
    gpu_textures,  \* number of GPU textures created so far (names raw handles)
    panicked,      \* the thread has panicked (an expect failed)
    last,          \* the last call: operation, key, what produce did, result
    handed,        \* key -> the tile get_or_insert_with last returned for it
                   \*        since the key's last remove
    issued,        \* (texture id, bounds) of every tile allocated in a texture
                   \* that still exists
    allocs,        \* number of calls of WebGpuAtlasState::allocate so far
    frame,         \* what the last WebRenderer frame did: its scene and the
                   \* GPU commands and log lines it issued, in order
    last_sync_point, \* Option<SyncPoint>: the number of the last submit
    inst_size,     \* mem::size_of of the instance types of the build
    window,        \* WebWindowState: whether a renderer is attached, the
                   \* size of the bounds, the scale factor
    renderer,      \* Option<WebRendererState>: None before initialization,
                   \* then the sizes the state keeps
    borrow,        \* the borrow flag of the atlas' RefCell, and the call
                   \* that holds it while its build runs
    fallback,      \* the window's WebAtlas: next_id, tiles, the calls whose
                   \* build is running, the tiles returned per key
    dispatcher,    \* WebDispatcher: the task queue, its lock, the poll loop
    input          \* the window's input callback slot and the events
                   \* dispatched

vars == <<storage, tiles_by_key, uploads, stats, gpu_textures, panicked, last,
          handed, issued, allocs>>

\* the renderer's variables; the atlas operations leave them alone
\* the variables of the window's other parts
pvars == <<borrow, fallback, dispatcher, input>>

rvars == <<frame, last_sync_point, inst_size, window, renderer, pvars>>

\* the instance buffers, one per primitive kind
BufferKinds == {"Quads", "Shadows", "MonochromeSprites", "PolychromeSprites",
                "Paths", "Underlines"}
\* the running byte offsets at the start of a render pass
ZeroOffsets == [kind \in BufferKinds |-> 0]
\* no frame has been drawn; a frame that is given up before its render pass
\* has looked at no batch and records the empty scene
NoFrame == [op |-> "none", scene |-> <<>>, valid |-> FALSE, events |-> <<>>,
            end_offsets |-> ZeroOffsets, again |-> FALSE,
            wait |-> "none", gpu_busy |-> FALSE]
\* mem::size_of of an instance type, for the kinds whose type is defined
\* outside this part of the repository
InstanceSizes == {64, 104}

\* WebSurfaceConfig::default().size
DefaultSurfaceSize == [width |-> 800, height |-> 600]
\* `as u32` of an i32: a value that is not negative is kept, a negative
\* one wraps to 2^32 + n, written [wrapped |-> n]
AsU32(n) == IF n >= 0 THEN n ELSE [wrapped |-> n]
\* `as i32` of a u32: a value up to i32::MAX is kept, [wrapped |-> n]
\* goes back to n
AsI32(n) == IF n \in Int THEN n ELSE n.wrapped
\* `as u32` of an f32 that holds a whole number: the cast saturates at 0
F32AsU32(x) == IF x < 0 THEN 0 ELSE x
\* `as f32` of an i32 or u32; exact below 2^24
AsF32(n) == n
\* initialize_async: the surface, the multisample target, drawable_size
\* and globals.viewport_size all come from config.size
Initialized(size) ==
    [some |-> TRUE,
     surface_size |-> size, msaa_size |-> size,
     drawable_size |-> [width |-> AsI32(size.width),
                        height |-> AsI32(size.height)],
     viewport_size |-> [width |-> AsF32(size.width),
                        height |-> AsF32(size.height)]]
\* a window whose renderer is attached, as the frame renderer's
\* specifications start
AttachedWindow ==
    [renderer |-> TRUE, size |-> DefaultSurfaceSize, scale_factor |-> 1,
     resized |-> FALSE]

\* WebGpuAtlasStorage::get / get_mut: textures[id.index] of the id's kind
StorageGet(st, id) ==
    LET textures == st[id.kind].textures
    IN  IF id.index + 1 <= Len(textures) THEN textures[id.index + 1] ELSE None

\* a cache lookup that never finds the key
CacheGet_AlwaysMiss(cache, key) == None

\* the cache lookup of get_or_insert_with
CacheGet(cache, key) == cache[key]

\* a build that is retried once after the first invocation
BuildCalls_Retry(hit) == IF hit THEN 0 ELSE 2

\* how often get_or_insert_with invokes build: not at all on a hit, once
\* on a miss
BuildCalls(hit) == IF hit THEN 0 ELSE 1

\* bytes per pixel of a texture kind (push_texture)
bytes_per_pixel(kind) == IF kind = "Monochrome" THEN 1 ELSE 4

\* an allocation that does not count the tile
TextureAllocate_NoCount(texture, size) ==
    LET allocation == allocator_allocate(texture.allocator, size)
    IN  IF ~allocation.some THEN None
        ELSE Some([texture |-> [texture EXCEPT
                                   !.allocator = allocation.val.alloc],
                   tile |-> [texture_id |-> texture.id,
                             tile_id |-> allocation.val.id,
                             padding |-> 0,
                             bounds |-> [origin |-> allocation.val.min,
                                         size |-> size]]])

\* WebGpuAtlasTexture::allocate: Some([texture, tile]) or None
TextureAllocate(texture, size) ==
    LET allocation == allocator_allocate(texture.allocator, size)
    IN  IF ~allocation.some THEN None
        ELSE Some([texture |-> [texture EXCEPT
                                   !.allocator = allocation.val.alloc,
                                   !.live_atlas_keys = @ + 1],
                   tile |-> [texture_id |-> texture.id,
                             tile_id |-> allocation.val.id,
                             padding |-> 0,
                             bounds |-> [origin |-> allocation.val.min,
                                         size |-> size]]])

\* a decrement that frees the whole texture for reuse once no key is live
decrement_ref_count_EagerFree(texture) ==
    IF texture.live_atlas_keys <= 1
    THEN [texture EXCEPT !.live_atlas_keys = 0,
                         !.allocator = NewAllocator(texture.size)]
    ELSE [texture EXCEPT !.live_atlas_keys = @ - 1]

\* WebGpuAtlasTexture::decrement_ref_count (saturating_sub)
decrement_ref_count(texture) ==
    [texture EXCEPT !.live_atlas_keys = IF @ > 0 THEN @ - 1 ELSE 0]

\* WebGpuAtlasState::push_texture: [list, pos], pos the 1-based slot of the
\* new texture in the kind's list
push_texture(list, min_size, kind, raw) ==
    LET size == [width |-> Max(min_size.width, DEFAULT_ATLAS_SIZE),
                 height |-> Max(min_size.height, DEFAULT_ATLAS_SIZE)]
        has_free == Len(list.free_list) > 0
        index == IF has_free THEN list.free_list[Len(list.free_list)]
                 ELSE Len(list.textures)
        atlas_texture == [id |-> [index |-> index, kind |-> kind],
                          allocator |-> NewAllocator(size),
                          size |-> size,
                          bytes_per_pixel |-> bytes_per_pixel(kind),
                          raw |-> raw,
                          live_atlas_keys |-> 0]
    IN  IF has_free
        THEN [list |-> [textures |-> [list.textures EXCEPT
                                         ![index + 1] = Some(atlas_texture)],
                        free_list |-> SubSeq(list.free_list, 1,
                                             Len(list.free_list) - 1)],
              pos |-> index + 1]
        ELSE [list |-> [textures |-> Append(list.textures, Some(atlas_texture)),
                        free_list |-> list.free_list],
              pos |-> Len(list.textures) + 1]

\* a search that starts at the oldest texture: the list is mirrored, the
\* search runs, the slot found is mirrored back
RECURSIVE find_map_rev_OldestFirst(_, _, _)
find_map_rev_OldestFirst(textures, i, size) ==
    LET n == Len(textures)
        slot == n + 1 - i
    IN  IF i = 0 THEN None
        ELSE IF textures[slot].some
                /\ TextureAllocate(textures[slot].val, size).some
             THEN Some([pos |-> slot,
                        res |-> TextureAllocate(textures[slot].val, size).val])
             ELSE find_map_rev_OldestFirst(textures, i - 1, size)

\* textures.iter_mut().rev().find_map(|t| t.allocate(size)): the newest
\* texture of the list, at slot i or below, that can place the size
RECURSIVE find_map_rev(_, _, _)
find_map_rev(textures, i, size) ==
    IF i = 0 THEN None
    ELSE IF textures[i].some /\ TextureAllocate(textures[i].val, size).some
         THEN Some([pos |-> i, res |-> TextureAllocate(textures[i].val, size).val])
         ELSE find_map_rev(textures, i - 1, size)

\* WebGpuAtlasState::allocate: [storage, tile, created, panic]
allocate(st, size, kind, raw) ==
    LET list == st[kind]
        found == find_map_rev(list.textures, Len(list.textures), size)
    IN  IF found.some
        THEN [storage |-> [st EXCEPT ![kind].textures[found.val.pos] =
                                         Some(found.val.res.texture)],
              tile |-> Some(found.val.res.tile),
              created |-> FALSE, panic |-> FALSE]
        ELSE LET pushed == push_texture(list, size, kind, raw)
                 fresh == pushed.list.textures[pushed.pos].val
                 placed == TextureAllocate(fresh, size)
             IN  IF placed.some
                 THEN [storage |-> [st EXCEPT ![kind] =
                                       [pushed.list EXCEPT !.textures[pushed.pos] =
                                           Some(placed.val.texture)]],
                       tile |-> Some(placed.val.tile),
                       created |-> TRUE, panic |-> FALSE]
                 \* expect("Failed to allocate in new texture")
                 ELSE [storage |-> [st EXCEPT ![kind] = pushed.list],
                       tile |-> None,
                       created |-> TRUE, panic |-> TRUE]

\* WebGpuAtlasStorage::destroy: both texture vectors are drained
storage_destroy(st) ==
    [kind \in Kinds |-> [st[kind] EXCEPT !.textures = <<>>]]

(***************************************************************************)
(* What a produce (build) callback can do: fail, report no content, or     *)
(* return a size and bytes.  The bytes are modelled by their length.        *)
(***************************************************************************)
NoSize == [width |-> 0, height |-> 0]
\* the byte length the atlas expects for a size of the key's kind
ExpectedLen(size, kind) == size.width * size.height * bytes_per_pixel(kind)
\* sizes for which build may also return one byte too many
MismatchSizes == {[width |-> 400, height |-> 400]}
BuildOutcomes(key) ==
    {[tag |-> t, size |-> NoSize, len |-> 0] : t \in {"err", "none"}}
    \cup
    {[tag |-> "content", size |-> sz,
      len |-> ExpectedLen(sz, texture_kind(key))] : sz \in BuildSizes}
    \cup
    {[tag |-> "content", size |-> sz,
      len |-> ExpectedLen(sz, texture_kind(key)) + 1] : sz \in MismatchSizes}

\* results of a call
RetUnit == [tag |-> "Unit", tile |-> None]
RetErr == [tag |-> "Err", tile |-> None]
RetPanic == [tag |-> "Panic", tile |-> None]
RetOk(opt_tile) == [tag |-> "Ok", tile |-> opt_tile]

\* what a call lets its caller observe
Call(op, key, hit, build_calls, outcome, ret) ==
    [op |-> op, key |-> key, hit |-> hit, build_calls |-> build_calls,
     outcome |-> outcome, ret |-> ret]

\* RefCell::new: not borrowed
Unborrowed ==
    [state |-> "free", key |-> 0, seen |-> <<>>, reentered |-> FALSE]
\* WebAtlas::new
NewFallback ==
    [next_id |-> 0, tiles |-> [k \in Keys |-> None], building |-> <<>>,
     given |-> [k \in Keys |-> {}], builds |-> 0,
     ret |-> [op |-> "new", key |-> 0, tile |-> None]]
\* WebDispatcher::new: an empty queue, unlocked; nothing polls
NewDispatcher ==
    [queue |-> <<>>, locked |-> FALSE, stack |-> <<>>,
     enqueued |-> <<>>, ran |-> <<>>, returned |-> FALSE,
     deadlocked |-> FALSE]
\* WebWindow::new: input_callback: None
NoInput ==
    [callback |-> None, registered |-> FALSE, running |-> <<>>,
     dispatched |-> 0, delivered |-> <<>>, dropped |-> <<>>]
\* the window's other parts as they are constructed
PartsInit ==
    /\ borrow = Unborrowed
    /\ fallback = NewFallback
    /\ dispatcher = NewDispatcher
    /\ input = NoInput

\* WebGpuAtlas::new
Init ==
    /\ storage = [kind \in Kinds |-> [textures |-> <<>>, free_list |-> <<>>]]
    /\ tiles_by_key = [k \in Keys |-> None]
    /\ uploads = <<>>
    /\ stats = [hits |-> 0, misses |-> 0]
    /\ gpu_textures = 0
    /\ panicked = FALSE
    /\ last = Call("new", 0, FALSE, 0, "-", RetUnit)
    /\ handed = [k \in Keys |-> None]
    /\ issued = {}
    /\ allocs = 0
    /\ frame = NoFrame
    /\ last_sync_point = None
    /\ inst_size = 64   \* the atlas operations never read it
    /\ window = AttachedWindow
    /\ renderer = Initialized(DefaultSurfaceSize)
    /\ PartsInit

\* get_or_insert_with, cache hit
GetOrInsertHit(key) ==
    LET cached == CacheGet(tiles_by_key, key) IN
    /\ ~panicked
    /\ cached.some
    /\ stats.hits < MaxStat
    /\ stats' = [stats EXCEPT !.hits = @ + 1]
    /\ last' = Call("get_or_insert_with", key, TRUE, BuildCalls(TRUE), "-",
                    RetOk(cached))
    /\ handed' = [handed EXCEPT ![key] = cached]
    /\ UNCHANGED <<storage, tiles_by_key, uploads, gpu_textures, panicked,
                   issued, allocs>>

\* a miss without content that caches an empty tile for the key
GetOrInsertNoTile_CachesEmpty(key, b) ==
    /\ ~panicked
    /\ ~CacheGet(tiles_by_key, key).some
    /\ b.tag \in {"err", "none"}
    /\ stats.misses < MaxStat
    /\ stats' = [stats EXCEPT !.misses = @ + 1]
    /\ tiles_by_key' = [tiles_by_key EXCEPT ![key] =
          Some([texture_id |-> [index |-> 0, kind |-> texture_kind(key)],
                tile_id |-> INVALID, padding |-> 0,
                bounds |-> [origin |-> [x |-> 0, y |-> 0], size |-> NoSize]])]
    /\ last' = Call("get_or_insert_with", key, FALSE, BuildCalls(FALSE), b.tag,
                    IF b.tag = "err" THEN RetErr ELSE RetOk(None))
    /\ UNCHANGED <<storage, uploads, gpu_textures, panicked,
                   handed, issued, allocs>>

\* get_or_insert_with, cache miss and build fails or has no content
GetOrInsertNoTile(key, b) ==
    /\ ~panicked
    /\ ~CacheGet(tiles_by_key, key).some
    /\ b.tag \in {"err", "none"}
    /\ stats.misses < MaxStat
    /\ stats' = [stats EXCEPT !.misses = @ + 1]
    /\ last' = Call("get_or_insert_with", key, FALSE, BuildCalls(FALSE), b.tag,
                    IF b.tag = "err" THEN RetErr ELSE RetOk(None))
    /\ UNCHANGED <<storage, tiles_by_key, uploads, gpu_textures, panicked,
                   handed, issued, allocs>>

\* get_or_insert_with, cache miss and build returns (size, bytes), while
\* fewer than max_allocs allocations have been made
GetOrInsertContentUpTo(key, b, max_allocs) ==
    /\ ~panicked
    /\ ~CacheGet(tiles_by_key, key).some
    /\ b.tag = "content"
    /\ stats.misses < MaxStat
    /\ allocs < max_allocs
    /\ \E raw \in {gpu_textures + 1} :
       \E r \in {allocate(storage, b.size, texture_kind(key), raw)} :
       /\ stats' = [stats EXCEPT !.misses = @ + 1]
       /\ allocs' = allocs + 1
       /\ storage' = r.storage
       /\ gpu_textures' = IF r.created THEN raw ELSE gpu_textures
       /\ IF r.panic
          THEN /\ panicked' = TRUE
               /\ last' = Call("get_or_insert_with", key, FALSE,
                               BuildCalls(FALSE), b.tag, RetPanic)
               /\ UNCHANGED <<tiles_by_key, uploads, handed, issued>>
          ELSE /\ uploads' = Append(uploads, [id |-> r.tile.val.texture_id,
                                              bounds |-> r.tile.val.bounds,
                                              data |-> b.len])
               /\ tiles_by_key' = [tiles_by_key EXCEPT ![key] = r.tile]
               /\ last' = Call("get_or_insert_with", key, FALSE,
                               BuildCalls(FALSE), b.tag, RetOk(r.tile))
               /\ handed' = [handed EXCEPT ![key] = r.tile]
               /\ issued' = issued \cup
                              {<<r.tile.val.texture_id, r.tile.val.bounds>>}
               /\ UNCHANGED panicked

\* get_or_insert_with, cache miss and build returns (size, bytes)
GetOrInsertContent(key, b) == GetOrInsertContentUpTo(key, b, MaxAllocs)

get_or_insert_with(key, b) ==
    \/ GetOrInsertHit(key)
    \/ GetOrInsertNoTile(key, b)
    \/ GetOrInsertContent(key, b)

\* a remove that expects the key to be cached
remove_Unwrap(key) ==
    LET cached == tiles_by_key[key] IN
    /\ ~panicked
    /\ last' = Call("remove", key, cached.some, 0, "-",
                    IF cached.some THEN RetUnit ELSE RetPanic)
    /\ panicked' = ~cached.some
    /\ IF ~cached.some
       THEN UNCHANGED <<storage, tiles_by_key, handed>>
       ELSE LET id == cached.val.texture_id IN
            /\ tiles_by_key' = [tiles_by_key EXCEPT ![key] = None]
            /\ handed' = [handed EXCEPT ![key] = None]
            /\ storage' = IF StorageGet(storage, id).some
                          THEN [storage EXCEPT
                                  ![id.kind].textures[id.index + 1] =
                                      Some(decrement_ref_count(@.val))]
                          ELSE storage
    /\ UNCHANGED <<uploads, stats, gpu_textures, issued, allocs>>

\* remove
remove(key) ==
    LET cached == tiles_by_key[key] IN
    /\ ~panicked
    /\ last' = Call("remove", key, cached.some, 0, "-", RetUnit)
    /\ IF ~cached.some
       THEN UNCHANGED <<storage, tiles_by_key, handed>>
       ELSE LET id == cached.val.texture_id IN
            /\ tiles_by_key' = [tiles_by_key EXCEPT ![key] = None]
            /\ handed' = [handed EXCEPT ![key] = None]
            /\ storage' = IF StorageGet(storage, id).some
                          THEN [storage EXCEPT
                                  ![id.kind].textures[id.index + 1] =
                                      Some(decrement_ref_count(@.val))]
                          ELSE storage
    /\ UNCHANGED <<uploads, stats, gpu_textures, panicked, issued, allocs>>

\* the positions of the queued uploads whose texture exists / is missing
\* (the storage.get(upload.id) test of flush_uploads)
UploadsWritten(q, st) == {i \in 1..Len(q) : StorageGet(st, q[i].id).some}
UploadsSkipped(q, st) == {i \in 1..Len(q) : ~StorageGet(st, q[i].id).some}

\* what a flush did: how many uploads it wrote to the GPU and how many it
\* skipped
RetFlushed(q, st) ==
    [tag |-> "Flushed", tile |-> None,
     written |-> Cardinality(UploadsWritten(q, st)),
     skipped |-> Cardinality(UploadsSkipped(q, st))]

\* the queue after a drain that puts back the uploads it could not write
Drain_KeepsSkipped(q, st) ==
    IF UploadsSkipped(q, st) = {} THEN <<>> ELSE q

\* uploads.drain(..) run to its end: nothing stays queued
Drain(q, st) == <<>>

\* flush_uploads: the statistics are reset and the queue is drained; an
\* upload whose texture no longer exists is dropped
flush_uploads ==
    /\ ~panicked
    /\ stats' = [hits |-> 0, misses |-> 0]
    /\ uploads' = Drain(uploads, storage)
    /\ last' = Call("flush_uploads", 0, FALSE, 0, "-",
                    RetFlushed(uploads, storage))
    /\ UNCHANGED <<storage, tiles_by_key, gpu_textures, panicked, handed,
                   issued, allocs>>

\* destroy
destroy ==
    /\ ~panicked
    /\ storage' = storage_destroy(storage)
    /\ issued' = {}
    /\ last' = Call("destroy", 0, FALSE, 0, "-", RetUnit)
    /\ UNCHANGED <<tiles_by_key, uploads, stats, gpu_textures, panicked,
                   handed, allocs>>

Next ==
    \/ \E key \in Keys : \E b \in BuildOutcomes(key) :
          get_or_insert_with(key, b) /\ UNCHANGED rvars
    \/ \E key \in Keys : remove(key) /\ UNCHANGED rvars
    \/ flush_uploads /\ UNCHANGED rvars
    \/ destroy /\ UNCHANGED rvars

Spec == Init /\ [][Next]_vars

(***************************************************************************)
(* Properties of the atlas.                                                *)
(***************************************************************************)
IsGet(call) == call.op = "get_or_insert_with"
ReturnsTile(call) == call.ret.tag = "Ok" /\ call.ret.tile.some

\* two bounds share a pixel
Overlap(b1, b2) ==
    /\ b1.origin.x < b2.origin.x + b2.size.width
    /\ b2.origin.x < b1.origin.x + b1.size.width
    /\ b1.origin.y < b2.origin.y + b2.size.height
    /\ b2.origin.y < b1.origin.y + b1.size.height

\* the live-tile counts of all textures, slot by slot
LiveCounts(st) ==
    [kind \in Kinds |->
        [i \in 1..Len(st[kind].textures) |->
            IF st[kind].textures[i].some
            THEN st[kind].textures[i].val.live_atlas_keys ELSE 0]]

\* the allocators of all textures, slot by slot
Allocators(st) ==
    [kind \in Kinds |->
        [i \in 1..Len(st[kind].textures) |->
            IF st[kind].textures[i].some
            THEN st[kind].textures[i].val.allocator ELSE None]]

\* C1: a get_or_insert_with that returns a tile for a key, when an earlier
\* call already returned a tile for that key and the key was not removed
\* since, returns the identical tile (texture id, tile id and bounds).
C1_TileStability ==
    [][(IsGet(last') /\ ReturnsTile(last') /\ handed[last'.key].some)
         => last'.ret.tile = handed[last'.key]]_vars

\* C1 happens: a hit returned the tile handed out before, while another key
\* is cached too
C1_Witness ==
    /\ IsGet(last) /\ last.hit /\ ReturnsTile(last)
    /\ last.ret.tile = handed[last.key]
    /\ \E k \in Keys : k # last.key /\ tiles_by_key[k].some

\* C2: the bounds of the cached tiles of distinct keys that name the same
\* texture id never overlap.
C2_CachedTilesDisjoint ==
    \A k1, k2 \in Keys :
        (/\ k1 # k2
         /\ tiles_by_key[k1].some /\ tiles_by_key[k2].some
         /\ tiles_by_key[k1].val.texture_id = tiles_by_key[k2].val.texture_id)
        => ~Overlap(tiles_by_key[k1].val.bounds, tiles_by_key[k2].val.bounds)

C4_HitChangesOnlyHits ==
    [][(IsGet(last') /\ tiles_by_key[last'.key].some)
         => /\ last'.build_calls = 0
            /\ UNCHANGED <<tiles_by_key, uploads, storage, gpu_textures,
                           allocs>>
            /\ stats' = [stats EXCEPT !.hits = @ + 1]]_vars

\* C4 happens: a hit while an upload is pending
C4_Witness ==
    IsGet(last) /\ last.hit /\ stats.hits > 0 /\ Len(uploads) > 0

\* C5: when build reports no content on a miss the call returns no tile and
\* leaves the cache, the upload queue and the textures with their allocators
\* unchanged, so the key is still not cached afterwards.
C5_NoContentNoChange ==
    [][(IsGet(last') /\ ~tiles_by_key[last'.key].some /\ last'.outcome = "none")
         => /\ last'.ret = RetOk(None)
            /\ last'.build_calls = 1
            /\ UNCHANGED <<tiles_by_key, uploads, storage, gpu_textures>>
            /\ ~tiles_by_key'[last'.key].some]_vars

\* C5 happens: a miss without content while the atlas holds a tile
C5_Witness ==
    /\ IsGet(last) /\ ~last.hit /\ last.outcome = "none"
    /\ last.ret = RetOk(None)
    /\ \E k \in Keys : tiles_by_key[k].some
    /\ \E k \in Keys : ~tiles_by_key[k].some

\* C6: remove of a cached key evicts exactly that entry, decrements the
\* live-tile count of the texture its tile names by one, and leaves the
\* allocators, the upload queue and the other cache entries unchanged.
C6_RemoveCached ==
    [][(last'.op = "remove" /\ tiles_by_key[last'.key].some)
         => LET id == tiles_by_key[last'.key].val.texture_id IN
            /\ tiles_by_key' = [tiles_by_key EXCEPT ![last'.key] = None]
            /\ StorageGet(storage, id).some
            /\ StorageGet(storage', id).some
            /\ StorageGet(storage', id).val.live_atlas_keys
                 = StorageGet(storage, id).val.live_atlas_keys - 1
            /\ Allocators(storage') = Allocators(storage)
            /\ UNCHANGED uploads]_vars

\* C7: remove of a key that is not cached does not panic and changes
\* neither the cache, the textures, the upload queue nor the statistics.
C7_RemoveUnknownNoOp ==
    [][(last'.op = "remove" /\ ~tiles_by_key[last'.key].some)
         => /\ ~panicked'
            /\ UNCHANGED <<tiles_by_key, storage, uploads, stats,
                           gpu_textures>>]_vars

\* C7 happens: a remove of an uncached key while another key is cached
C7_Witness ==
    /\ last.op = "remove" /\ ~last.hit
    /\ \E k \in Keys : tiles_by_key[k].some
    /\ \E k \in Keys : ~tiles_by_key[k].some
    /\ Len(uploads) > 0

\* C8: a freshly allocated tile never has the texture id and bounds of a
\* tile allocated earlier in a texture that still exists, also when the
\* earlier tile's key has been removed.
C8_NoRectangleReuse ==
    [][(IsGet(last') /\ ~last'.hit /\ ReturnsTile(last'))
         => <<last'.ret.tile.val.texture_id, last'.ret.tile.val.bounds>>
               \notin issued]_vars

\* C8 happens: after a key's removal another key got a tile of the same size
\* in the same texture, at other bounds
C8_Witness ==
    /\ IsGet(last) /\ ~last.hit /\ ReturnsTile(last)
    /\ \E e \in issued :
         /\ e[1] = last.ret.tile.val.texture_id
         /\ e[2].size = last.ret.tile.val.bounds.size
         /\ e[2] # last.ret.tile.val.bounds
         /\ \A k \in Keys : tiles_by_key[k].some
                               => tiles_by_key[k].val.bounds # e[2]

\* some existing texture of the kind can place the size
FitsExisting(st, size, kind) ==
    find_map_rev(st[kind].textures, Len(st[kind].textures), size).some

\* C9: a miss with content that no existing texture of the key's kind can
\* place creates a new texture of that kind, places the tile there and
\* returns it.
C9_ExhaustionCreatesTexture ==
    [][\A k \in Keys : \A b \in BuildOutcomes(k) :
         (/\ get_or_insert_with(k, b) /\ ~tiles_by_key[k].some
          /\ b.tag = "content"
          /\ ~FitsExisting(storage, b.size, texture_kind(k)))
           => LET kind == texture_kind(k)
                  id == [index |-> Len(storage[kind].textures), kind |-> kind]
              IN  /\ ReturnsTile(last')
                  /\ gpu_textures' = gpu_textures + 1
                  /\ ~StorageGet(storage, id).some
                  /\ StorageGet(storage', id).some
                  /\ StorageGet(storage', id).val.live_atlas_keys = 1
                  /\ last'.ret.tile.val.texture_id = id
                  /\ tiles_by_key'[k] = last'.ret.tile]_vars

\* C10: get_or_insert_with never fails the expectation that the allocation
\* in a newly created texture succeeds, for every size build returns.
C10_NewTextureAllocationSucceeds ==
    ~panicked

\* C11: a miss for which build returns (size, bytes) with a byte length
\* other than width * height * bytes_per_pixel of the key's kind is skipped:
\* no tile is allocated or cached and no upload is queued for it.
C11_MismatchSkipped ==
    [][\A k \in Keys : \A b \in BuildOutcomes(k) :
         (/\ GetOrInsertContent(k, b)
          /\ b.len # ExpectedLen(b.size, texture_kind(k)))
           => UNCHANGED <<storage, tiles_by_key, uploads>>]_vars

\* C12: after every flush_uploads the upload queue is empty and the hit and
\* miss counters are zero, whatever was queued and whether or not the
\* textures of the queued uploads still exist.
C12_FlushEmptiesQueue ==
    last.op = "flush_uploads"
        => uploads = <<>> /\ stats = [hits |-> 0, misses |-> 0]

\* C12 happens: a flush met a queued upload whose texture had been destroyed,
\* skipped it and left the queue empty
C12_Witness ==
    /\ last.op = "flush_uploads"
    /\ last.ret.written = 0 /\ last.ret.skipped > 0
    /\ uploads = <<>>
    /\ \E k \in Keys : tiles_by_key[k].some

\* C35: every tile that get_or_insert_with returns, fresh or from the
\* cache, names a texture that exists in the atlas when the call returns,
\* and that texture is the one the tile was allocated in.
C35_ReturnedTileHasTexture ==
    (IsGet(last) /\ ReturnsTile(last)) =>
        /\ StorageGet(storage, last.ret.tile.val.texture_id).some
        /\ <<last.ret.tile.val.texture_id, last.ret.tile.val.bounds>>
              \in issued

\* C36: every upload a miss has queued is written by the first
\* flush_uploads after it: a flush skips none of the uploads it finds in
\* the queue, whatever get_or_insert_with, remove and destroy calls came
\* in between.
C36_FlushWritesEveryUpload ==
    last.op = "flush_uploads" => last.ret.skipped = 0

(***************************************************************************)
(* Packing: insertions of tiles of a few sizes into a new atlas.           *)
(***************************************************************************)
\* the tile sizes inserted
PackSizes ==
    {[width |-> 300, height |-> 300], [width |-> 600, height |-> 600],
     [width |-> 1024, height |-> 512]}
\* build returns one of them with as many bytes as the size asks for
PackBuilds(key) ==
    {[tag |-> "content", size |-> sz,
      len |-> ExpectedLen(sz, texture_kind(key))] : sz \in PackSizes}

PackNext ==
    \/ \E key \in Keys : GetOrInsertHit(key) /\ UNCHANGED rvars
    \/ \E key \in Keys : \E b \in PackBuilds(key) :
          GetOrInsertContent(key, b) /\ UNCHANGED rvars
    \/ flush_uploads /\ UNCHANGED rvars

PackSpec == Init /\ [][PackNext]_vars

\* the summed area of the tiles in a set of (texture id, bounds) pairs
RECURSIVE SumArea(_)
SumArea(tiles) ==
    IF tiles = {} THEN 0
    ELSE LET t == CHOOSE x \in tiles : TRUE
         IN  t[2].size.width * t[2].size.height + SumArea(tiles \ {t})

\* C27: while the tiles inserted of one kind have a total area of at most
\* the area of one default-size texture, they are all in one texture: no
\* second texture of the kind exists and no allocation has failed.
C27_AreaFitsOneTexture ==
    \A kind \in Kinds :
        SumArea({t \in issued : t[1].kind = kind})
              <= DEFAULT_ATLAS_SIZE * DEFAULT_ATLAS_SIZE
           => /\ Len(storage[kind].textures) <= 1
              /\ ~panicked

(***************************************************************************)
(* The atlas while it is in use: every operation but destroy.              *)
(***************************************************************************)
UseNext ==
    \/ \E key \in Keys : \E b \in BuildOutcomes(key) :
          get_or_insert_with(key, b) /\ UNCHANGED rvars
    \/ \E key \in Keys : remove(key) /\ UNCHANGED rvars
    \/ flush_uploads /\ UNCHANGED rvars

UseSpec == Init /\ [][UseNext]_vars

\* the keys whose cached tile names a texture id
KeysIn(id) ==
    {k \in Keys : tiles_by_key[k].some /\ tiles_by_key[k].val.texture_id = id}

\* C33: after any sequence of get_or_insert_with, remove and
\* flush_uploads, the live-tile count of every texture is the number of
\* cache entries whose tile names that texture.
C33_LiveCountIsCacheCount ==
    \A kind \in Kinds : \A i \in 1..Len(storage[kind].textures) :
        storage[kind].textures[i].some =>
            storage[kind].textures[i].val.live_atlas_keys
               = Cardinality(KeysIn(storage[kind].textures[i].val.id))

\* C33 happens: a texture that held the tiles of two keys has lost one of
\* them to a remove and counts one live tile
C33_Witness ==
    /\ last.op = "remove" /\ last.hit
    /\ \E kind \in Kinds : \E i \in 1..Len(storage[kind].textures) :
          /\ storage[kind].textures[i].some
          /\ storage[kind].textures[i].val.live_atlas_keys = 1
          /\ Cardinality({e \in issued :
                             e[1] = storage[kind].textures[i].val.id}) = 2

\* C34: when build fails on a miss, get_or_insert_with returns the error
\* after one call of build, counts one miss and leaves the cache, the
\* upload queue and the textures with their allocators unchanged; the key
\* is still not cached, so the next call for it is a miss again.
C34_BuildErrorNoChange ==
    [][(IsGet(last') /\ ~tiles_by_key[last'.key].some /\ last'.outcome = "err")
         => /\ last'.ret = RetErr
            /\ last'.build_calls = 1
            /\ UNCHANGED <<tiles_by_key, uploads, storage, gpu_textures,
                           panicked>>
            /\ stats' = [stats EXCEPT !.misses = @ + 1]
            /\ ~tiles_by_key'[last'.key].some]_vars

\* C34 happens: build failed on a miss while another key is cached in the
\* atlas' one texture
C34_Witness ==
    /\ IsGet(last) /\ ~last.hit /\ last.outcome = "err"
    /\ last.ret = RetErr
    /\ ~tiles_by_key[last.key].some
    /\ stats.misses = 1
    /\ gpu_textures = 1
    /\ \E k \in Keys : tiles_by_key[k].some

(***************************************************************************)
(* Placement: which texture a new tile goes to, once several textures of   *)
(* a kind exist.                                                           *)
(***************************************************************************)
\* number of tile allocations explored for the placement
MaxPlaced == 3
\* the sizes placed: the packing sizes and a size without width
PlaceSizes == PackSizes \cup {[width |-> 0, height |-> 400]}
PlaceBuilds(key) ==
    {[tag |-> "content", size |-> sz,
      len |-> ExpectedLen(sz, texture_kind(key))] : sz \in PlaceSizes}

\* misses with content, removals and flushes
PlaceNext ==
    \/ \E key \in Keys : \E b \in PlaceBuilds(key) :
          GetOrInsertContentUpTo(key, b, MaxPlaced) /\ UNCHANGED rvars
    \/ \E key \in Keys : remove(key) /\ UNCHANGED rvars
    \/ flush_uploads /\ UNCHANGED rvars

PlaceSpec == Init /\ [][PlaceNext]_vars

\* the slots of the textures of a kind that can place a size
SlotsThatFit(st, kind, size) ==
    {i \in 1..Len(st[kind].textures) :
        /\ st[kind].textures[i].some
        /\ TextureAllocate(st[kind].textures[i].val, size).some}
\* the slot, among a non-empty set of slots of a kind, whose texture was
\* created last
NewestSlot(st, kind, slots) ==
    CHOOSE i \in slots : \A j \in slots :
        st[kind].textures[j].val.raw <= st[kind].textures[i].val.raw
OtherKind(kind) == CHOOSE o \in Kinds : o # kind

\* C32: a miss with content places the tile in the most recently created
\* texture of the key's kind that can place the size; no texture is
\* created and no other texture is touched then.  A texture is created
\* only when no existing texture of the kind can place the size, and it
\* is of the key's kind; a tile that is returned then is in that new
\* texture.  The textures of the other kind are never touched.
C32_NewestFittingTexture ==
    [][\A k \in Keys : \A b \in PlaceBuilds(k) :
         GetOrInsertContentUpTo(k, b, MaxPlaced) =>
            LET kind == texture_kind(k)
                fits == SlotsThatFit(storage, kind, b.size)
                n == Len(storage[kind].textures)
            IN  /\ storage'[OtherKind(kind)] = storage[OtherKind(kind)]
                /\ fits # {} =>
                      LET slot == NewestSlot(storage, kind, fits) IN
                      /\ gpu_textures' = gpu_textures
                      /\ ReturnsTile(last')
                      /\ last'.ret.tile.val.texture_id =
                            storage[kind].textures[slot].val.id
                      /\ Len(storage'[kind].textures) = n
                      /\ \A i \in 1..n : i # slot =>
                            storage'[kind].textures[i]
                               = storage[kind].textures[i]
                      /\ storage'[kind].textures[slot].val.raw
                            = storage[kind].textures[slot].val.raw
                /\ fits = {} =>
                      /\ gpu_textures' = gpu_textures + 1
                      /\ Len(storage'[kind].textures) = n + 1
                      /\ storage'[kind].textures[n + 1].val.id.kind = kind
                      /\ \A i \in 1..n :
                            storage'[kind].textures[i]
                               = storage[kind].textures[i]
                      /\ ReturnsTile(last') =>
                            last'.ret.tile.val.texture_id =
                               storage'[kind].textures[n + 1].val.id
      ]_vars

\* C32 happens: two textures of a kind exist, the newer one could not
\* place the last tile and the older one did
C32_Witness ==
    /\ IsGet(last) /\ ~last.hit /\ ReturnsTile(last)
    /\ Len(storage["Monochrome"].textures) = 2
    /\ last.ret.tile.val.texture_id = [index |-> 0, kind |-> "Monochrome"]
    /\ allocs = 3
    /\ gpu_textures = 2

(***************************************************************************)
(* Frame renderer (src/src/platform/web/renderer.rs).  WebRenderer::draw   *)
(* runs to completion while it holds the renderer's RefCell, so one frame  *)
(* is one step.  A Scene is the sequence of batches scene.batches()        *)
(* yields; a batch is modelled by its kind, its number of primitives and,  *)
(* for sprites, the texture id it names.  A frame is recorded as the       *)
(* sequence of GPU commands and log lines it issued.                       *)
(***************************************************************************)
\* number of submitted frames explored
MaxFrames == 2

MAX_QUADS_PER_BATCH == 4096
MAX_SPRITES_PER_BATCH == 4096
MAX_SHADOWS_PER_BATCH == 4096
MAX_PATH_VERTICES_PER_BATCH == 65536
MAX_UNDERLINES_PER_BATCH == 4096
STORAGE_BUFFER_ALIGNMENT == 256

\* capacity of a kind's buffer in instances (vertices for paths), as the
\* draw_*_internal functions use it
MaxPerBatch(kind) ==
    CASE kind = "Quads" -> MAX_QUADS_PER_BATCH
      [] kind = "Shadows" -> MAX_SHADOWS_PER_BATCH
      [] kind = "MonochromeSprites" -> MAX_SPRITES_PER_BATCH
      [] kind = "PolychromeSprites" -> MAX_SPRITES_PER_BATCH
      [] kind = "Paths" -> MAX_PATH_VERTICES_PER_BATCH
      [] kind = "Underlines" -> MAX_UNDERLINES_PER_BATCH

\* mem::size_of::<GpuPathVertex>(): 30 fields of 4 bytes, repr(C)
GpuPathVertexSize == 30 * 4

\* mem::size_of of a kind's instance type
size_of(kind, sz) == IF kind = "Paths" THEN GpuPathVertexSize ELSE sz

\* an offset that is handed on as it is
align_up_Unaligned(n) == n

\* (n + ALIGNMENT - 1) & !(ALIGNMENT - 1); ALIGNMENT is a power of two, so
\* the mask clears the remainder
align_up(n) ==
    LET x == n + STORAGE_BUFFER_ALIGNMENT - 1
    IN  x - (x % STORAGE_BUFFER_ALIGNMENT)

\* PrimitiveBatch values: len primitives, of which wavy are wavy underlines;
\* vertices is the sum of the paths' vertex counts
Batch(kind, len, wavy, vertices, texture_id) ==
    [kind |-> kind, len |-> len, wavy |-> wavy, vertices |-> vertices,
     texture_id |-> texture_id]
MonoTexture == [index |-> 0, kind |-> "Monochrome"]
PolyTexture == [index |-> 0, kind |-> "Polychrome"]
SceneBatches ==
    {Batch("Quads", n, 0, 0, None) : n \in {0, 3, 4096, 5000}}
    \cup {Batch("Shadows", 3, 0, 0, None)}
    \cup {Batch("MonochromeSprites", 3, 0, 0, Some(MonoTexture)),
          Batch("PolychromeSprites", 5000, 0, 0, Some(PolyTexture))}
    \cup {Batch("Paths", 1, 0, 0, None), Batch("Paths", 2, 0, 70000, None)}
    \cup {Batch("Underlines", 5, 2, 0, None),
          Batch("Underlines", 2, 2, 0, None),
          Batch("Underlines", 4099, 3, 0, None)}
    \cup {Batch("Surfaces", 1, 0, 0, None)}
\* the scenes drawn: up to two batches
Scenes ==
    {<<>>} \cup {<<a>> : a \in SceneBatches}
           \cup {<<a, b>> : a, b \in SceneBatches}

\* the number of queued uploads that name a texture
QueuedFor(q, texture) ==
    IF texture.some
    THEN Cardinality({i \in 1..Len(q) : q[i].id = texture.val})
    ELSE 0

\* encoder.bind + encoder.draw of count instances (vertices for paths) read
\* at offset, after data_size bytes were copied there; len is what the
\* batch held for this pipeline
DrawCall(i, kind, pipeline, len, offset, count, data_size, texture, q) ==
    [ev |-> "draw", batch |-> i, kind |-> kind, pipeline |-> pipeline,
     len |-> len, offset |-> offset, count |-> count, bytes |-> data_size,
     texture |-> texture, queued |-> QueuedFor(q, texture)]
\* log::warn! about batch i; offset is the kind's running offset when the
\* line is logged
Warn(i, kind, what, len, offset) ==
    [ev |-> "warn", batch |-> i, kind |-> kind, what |-> what, len |-> len,
     offset |-> offset]
\* any other step of the frame
Step(name) == [ev |-> name]

\* a room check that lets every write through
HasRoom_Unchecked(buffer_offset, data_size, max_offset) == TRUE

\* the negation of `buffer_offset + data_size > max_offset`
HasRoom(buffer_offset, data_size, max_offset) ==
    ~(buffer_offset + data_size > max_offset)

\* a slice whose offset moves on although the slice was dropped
DrawSlice_AdvancesOnDrop(i, kind, pipeline, len, buffer_offset, sz, texture, q) ==
    LET count == Min(len, MaxPerBatch(kind))
        data_size == count * size_of(kind, sz)
        max_offset == MaxPerBatch(kind) * size_of(kind, sz)
    IN  IF ~HasRoom(buffer_offset, data_size, max_offset)
        THEN [offset |-> align_up(buffer_offset + data_size),
              overflow |-> TRUE,
              events |-> <<Warn(i, kind, "overflow", len, buffer_offset)>>]
        ELSE [offset |-> align_up(buffer_offset + data_size),
              overflow |-> FALSE,
              events |-> <<DrawCall(i, kind, pipeline, len, buffer_offset,
                                    count, data_size, texture, q)>>]

\* the body the draw_*_internal functions share once the slice is known to
\* be non-empty: clamp the count, check the room, copy, bind, draw, align
DrawSlice(i, kind, pipeline, len, buffer_offset, sz, texture, q) ==
    LET count == Min(len, MaxPerBatch(kind))
        data_size == count * size_of(kind, sz)
        max_offset == MaxPerBatch(kind) * size_of(kind, sz)
    IN  IF ~HasRoom(buffer_offset, data_size, max_offset)
        THEN [offset |-> buffer_offset, overflow |-> TRUE,
              events |-> <<Warn(i, kind, "overflow", len, buffer_offset)>>]
        ELSE [offset |-> align_up(buffer_offset + data_size),
              overflow |-> FALSE,
              events |-> <<DrawCall(i, kind, pipeline, len, buffer_offset,
                                    count, data_size, texture, q)>>]

Skip(buffer_offset) ==
    [offset |-> buffer_offset, overflow |-> FALSE, events |-> <<>>]

\* a quad batch above the per-batch maximum is not drawn at all
draw_quads_internal_DropsOversized(i, quads, buffer_offset, sz) ==
    IF quads.len = 0 \/ quads.len > MAX_QUADS_PER_BATCH
    THEN Skip(buffer_offset)
    ELSE DrawSlice(i, "Quads", "quads", quads.len, buffer_offset, sz,
                   None, <<>>)

draw_quads_internal(i, quads, buffer_offset, sz) ==
    IF quads.len = 0 THEN Skip(buffer_offset)
    ELSE DrawSlice(i, "Quads", "quads", quads.len, buffer_offset, sz,
                   None, <<>>)

draw_shadows_internal(i, shadows, buffer_offset, sz) ==
    IF shadows.len = 0 THEN Skip(buffer_offset)
    ELSE DrawSlice(i, "Shadows", "shadows", shadows.len, buffer_offset, sz,
                   None, <<>>)

\* a path batch that is drawn without looking at its vertex total
draw_paths_internal_NoVertexCheck(i, paths, buffer_offset, sz) ==
    IF paths.len = 0 THEN Skip(buffer_offset)
    ELSE DrawSlice(i, "Paths", "paths", paths.vertices, buffer_offset, sz,
                   None, <<>>)

\* paths are flattened to vertices; the vertex total is what is clamped,
\* copied and drawn
draw_paths_internal(i, paths, buffer_offset, sz) ==
    IF paths.len = 0 THEN Skip(buffer_offset)
    ELSE IF paths.vertices = 0 THEN Skip(buffer_offset)
    ELSE DrawSlice(i, "Paths", "paths", paths.vertices, buffer_offset, sz,
                   None, <<>>)

draw_mono_sprites_internal(i, sprites, buffer_offset, sz, texture, q) ==
    IF sprites.len = 0 THEN Skip(buffer_offset)
    ELSE DrawSlice(i, "MonochromeSprites", "mono_sprites", sprites.len,
                   buffer_offset, sz, texture, q)

draw_poly_sprites_internal(i, sprites, buffer_offset, sz, texture, q) ==
    IF sprites.len = 0 THEN Skip(buffer_offset)
    ELSE DrawSlice(i, "PolychromeSprites", "poly_sprites", sprites.len,
                   buffer_offset, sz, texture, q)

\* wavy underlines that are written where the straight ones were
draw_underlines_internal_WavyAtStart(i, underlines, buffer_offset, sz) ==
    IF underlines.len = 0 THEN Skip(buffer_offset)
    ELSE LET straight == underlines.len - underlines.wavy
             wavy == underlines.wavy
             s == IF straight # 0
                  THEN DrawSlice(i, "Underlines", "underlines", straight,
                                 buffer_offset, sz, None, <<>>)
                  ELSE Skip(buffer_offset)
             w == IF wavy # 0
                  THEN DrawSlice(i, "Underlines", "underlines_wavy", wavy,
                                 buffer_offset, sz, None, <<>>)
                  ELSE Skip(s.offset)
         IN  IF s.overflow THEN s
             ELSE [offset |-> w.offset, overflow |-> w.overflow,
                   events |-> s.events \o w.events]

\* straight underlines first, then the wavy ones; an overflow of the
\* straight part returns before the wavy part is looked at
draw_underlines_internal(i, underlines, buffer_offset, sz) ==
    IF underlines.len = 0 THEN Skip(buffer_offset)
    ELSE LET straight == underlines.len - underlines.wavy
             wavy == underlines.wavy
             s == IF straight # 0
                  THEN DrawSlice(i, "Underlines", "underlines", straight,
                                 buffer_offset, sz, None, <<>>)
                  ELSE Skip(buffer_offset)
             w == IF wavy # 0
                  THEN DrawSlice(i, "Underlines", "underlines_wavy", wavy,
                                 s.offset, sz, None, <<>>)
                  ELSE Skip(s.offset)
         IN  IF s.overflow THEN s
             ELSE [offset |-> w.offset, overflow |-> w.overflow,
                   events |-> s.events \o w.events]

\* a lookup that finds a texture for every id
get_texture_info_AlwaysSome(st, id) == Some(id)

\* WebGpuAtlas::get_texture_info
get_texture_info(st, id) == StorageGet(st, id)

\* one iteration of `for batch in scene.batches()`: the match on the batch
\* kind; [offsets, events]
draw_batch(i, batch, offsets, sz, st, q) ==
    LET done(kind, r) == [offsets |-> [offsets EXCEPT ![kind] = r.offset],
                          events |-> r.events]
    IN  CASE batch.kind = "Quads" ->
               done("Quads",
                    draw_quads_internal(i, batch, offsets["Quads"], sz))
          [] batch.kind = "Shadows" ->
               done("Shadows",
                    draw_shadows_internal(i, batch, offsets["Shadows"], sz))
          [] batch.kind = "MonochromeSprites" ->
               IF get_texture_info(st, batch.texture_id.val).some
               THEN done("MonochromeSprites",
                         draw_mono_sprites_internal(i, batch,
                             offsets["MonochromeSprites"], sz,
                             batch.texture_id, q))
               ELSE [offsets |-> offsets,
                     events |-> <<Warn(i, batch.kind, "no_texture",
                                       batch.len,
                                       offsets["MonochromeSprites"])>>]
          [] batch.kind = "PolychromeSprites" ->
               IF get_texture_info(st, batch.texture_id.val).some
               THEN done("PolychromeSprites",
                         draw_poly_sprites_internal(i, batch,
                             offsets["PolychromeSprites"], sz,
                             batch.texture_id, q))
               ELSE [offsets |-> offsets,
                     events |-> <<Warn(i, batch.kind, "no_texture",
                                       batch.len,
                                       offsets["PolychromeSprites"])>>]
          [] batch.kind = "Paths" ->
               done("Paths",
                    draw_paths_internal(i, batch, offsets["Paths"], sz))
          [] batch.kind = "Underlines" ->
               done("Underlines",
                    draw_underlines_internal(i, batch, offsets["Underlines"],
                                             sz))
          [] OTHER -> [offsets |-> offsets, events |-> <<>>]

\* an iteration that visits the last batch first
batches_Reversed(scene) == [j \in 1..Len(scene) |-> Len(scene) + 1 - j]

\* scene.batches(): the positions of the batches in the order the loop
\* visits them, which is the scene's order
batches(scene) == [j \in 1..Len(scene) |-> j]

\* the loop over the batches from the j-th visited on; [offsets, events]
RECURSIVE render_pass(_, _, _, _, _, _, _)
render_pass(scene, order, j, offsets, sz, st, q) ==
    IF j > Len(order) THEN [offsets |-> offsets, events |-> <<>>]
    ELSE LET r == draw_batch(order[j], scene[order[j]], offsets, sz, st, q)
             rest == render_pass(scene, order, j + 1, r.offsets, sz, st, q)
         IN  [offsets |-> rest.offsets, events |-> r.events \o rest.events]

\* offsets that carry over from the frame before
StartOffsets_Carried(left) == left

\* `let mut quad_buffer_offset: u64 = 0;` and its five siblings: whatever
\* the last frame left, the pass starts at zero
StartOffsets(left) == ZeroOffsets

\* a pass that still sees the uploads queued before the frame
QueueAtPass_NotFlushed(q, st) == q

\* the upload queue as the render pass finds it: flush_uploads has run
\* before the frame is acquired
QueueAtPass(q, st) == Drain(q, st)

\* the number of the last submit, 0 before the first
SyncCount == IF last_sync_point.some THEN last_sync_point.val ELSE 0

\* what `state.gpu.wait_for(sp, 1000)` can answer: there is nothing to wait
\* for before the first submit; afterwards the GPU reaches the sync point in
\* time or the wait times out
WaitResults ==
    IF last_sync_point.some THEN {"done", "timeout"} ELSE {"none"}

\* whether the GPU may still be reading the buffers of the frame submitted
\* last when the wait has returned: after a timeout it may or may not be
GpuBusyAfter(wait) == IF wait = "timeout" THEN BOOLEAN ELSE {FALSE}

\* a frame that is given up when the wait times out
GoesOn_OnlyIfDone(wait) == wait # "timeout"

\* `let _ = state.gpu.wait_for(sp, 1000);`: the result is discarded, the
\* frame goes on whatever the wait answered
GoesOn(wait) == TRUE

\* gpu.wait_for(sp, ..) on sync point sp, and gpu.submit that returns sp
Wait(sp) == [ev |-> "wait", sp |-> sp]
Submit(sp) == [ev |-> "submit", sp |-> sp]

\* the steps of a frame before the surface is acquired:
\* `if let Some(ref sp) = state.last_sync_point { wait_for(sp, 1000) }`
BeforeAcquire ==
    (IF last_sync_point.some THEN <<Wait(last_sync_point.val)>> ELSE <<>>)

\* observation: a frame function has run, so no resize is waiting for
\* its draw any more
FrameFunctionRan == window' = [window EXCEPT !.resized = FALSE]

\* a renderer that counts as initialized whatever its state
IsInitialized_Always(r) == TRUE

\* `let Some(state) = state_ref.as_mut() else { warn; return }`
IsInitialized(r) == r.some

\* a frame function called before initialization: it logs and returns
CalledBeforeInit(op) ==
    /\ frame' = [NoFrame EXCEPT !.op = op,
                                !.events = <<Warn(0, "-", "uninitialized",
                                                  0, 0)>>]
    /\ FrameFunctionRan
    /\ UNCHANGED <<last_sync_point, inst_size, pvars, renderer>>
    /\ UNCHANGED vars

\* a frame that encodes and submits although the acquire failed
FrameEvents_IgnoresInvalid(before, valid, pass_events) ==
    before \o <<Step("acquire"), Step("start"), Step("begin_pass")>>
           \o pass_events
           \o <<Step("end_pass"), Step("present"), Submit(SyncCount + 1)>>

\* the steps of a frame from the acquire on, around the render pass
FrameEvents(before, valid, pass_events) ==
    IF ~valid
    THEN before \o <<Warn(0, "-", "acquire", 0, 0)>>
    ELSE before \o <<Step("acquire"), Step("start"), Step("begin_pass")>>
                \o pass_events
                \o <<Step("end_pass"), Step("present"),
                      Submit(SyncCount + 1)>>

\* WebRenderer::draw on an initialized renderer; wait is what wait_for
\* answers, gpu_busy whether the GPU is still at the last frame afterwards,
\* valid what frame.is_valid() answers
draw(scene, wait, gpu_busy, valid) ==
    IF ~IsInitialized(renderer) THEN CalledBeforeInit("draw")
    ELSE
    /\ SyncCount < MaxFrames
    /\ flush_uploads
    /\ \E pass \in {render_pass(scene, batches(scene), 1,
                                 StartOffsets(frame.end_offsets), inst_size,
                                 storage, QueueAtPass(uploads, storage))} :
       /\ frame' = [op |-> "draw", scene |-> IF valid THEN scene ELSE <<>>,
                    valid |-> valid,
                    events |-> IF GoesOn(wait)
                               THEN FrameEvents(
                                        BeforeAcquire \o <<Step("flush")>>,
                                        valid, pass.events)
                               ELSE BeforeAcquire,
                    end_offsets |-> IF valid THEN pass.offsets
                                    ELSE frame.end_offsets,
                    \* the frame right before drew the same scene
                    again |-> /\ valid /\ frame.op = "draw" /\ frame.valid
                              /\ frame.scene = scene
                              /\ last.op = "flush_uploads",
                    wait |-> wait, gpu_busy |-> gpu_busy]
    /\ last_sync_point' = IF valid THEN Some(SyncCount + 1)
                          ELSE last_sync_point
    /\ FrameFunctionRan
    /\ UNCHANGED <<inst_size, pvars, renderer>>

\* a clear that does not keep the sync point of its submit
clear_ForgetsSync(wait, gpu_busy, valid) ==
    /\ SyncCount < MaxFrames
    /\ frame' = [op |-> "clear", scene |-> <<>>, valid |-> valid,
                 events |-> FrameEvents(BeforeAcquire, valid, <<>>),
                 end_offsets |-> frame.end_offsets, again |-> FALSE,
                 wait |-> wait, gpu_busy |-> gpu_busy]
    /\ FrameFunctionRan
    /\ UNCHANGED <<last_sync_point, inst_size, pvars, renderer>>
    /\ UNCHANGED vars

\* WebRenderer::clear and clear_with_index on an initialized renderer: an
\* empty render pass; the atlas is not touched
clear(wait, gpu_busy, valid) ==
    IF ~IsInitialized(renderer) THEN CalledBeforeInit("clear")
    ELSE
    /\ SyncCount < MaxFrames
    /\ frame' = [op |-> "clear", scene |-> <<>>, valid |-> valid,
                 events |-> FrameEvents(BeforeAcquire, valid, <<>>),
                 end_offsets |-> frame.end_offsets, again |-> FALSE,
                 wait |-> wait, gpu_busy |-> gpu_busy]
    /\ last_sync_point' = IF valid THEN Some(SyncCount + 1)
                          ELSE last_sync_point
    /\ FrameFunctionRan
    /\ UNCHANGED <<inst_size, pvars, renderer>>
    /\ UNCHANGED vars

\* WebRenderer::draw_test_text on an initialized renderer: the text's pixels
\* (build outcome b) are inserted under key, the atlas is flushed and one
\* monochrome sprite is drawn at offset 0
draw_test_text(key, b, wait, gpu_busy, valid) ==
    LET cached == CacheGet(tiles_by_key, key)
        miss == ~cached.some
        raw == gpu_textures + 1
    IN
    IF ~IsInitialized(renderer) THEN CalledBeforeInit("draw_test_text")
    ELSE
    /\ ~panicked
    /\ b.tag = "content"
    /\ SyncCount < MaxFrames
    /\ miss => allocs < MaxAllocs
    /\ \E r \in {allocate(storage, b.size, texture_kind(key), raw)} :
       /\ allocs' = IF miss THEN allocs + 1 ELSE allocs
       /\ gpu_textures' = IF miss /\ r.created THEN raw ELSE gpu_textures
       /\ FrameFunctionRan
       /\ UNCHANGED <<inst_size, pvars, renderer>>
       /\ IF miss /\ r.panic
          THEN \* .expect("atlas insert failed") is never reached: allocate
               \* panicked inside get_or_insert_with
               /\ panicked' = TRUE
               /\ storage' = r.storage
               /\ stats' = [stats EXCEPT !.misses = @ + 1]
               /\ last' = Call("get_or_insert_with", key, FALSE,
                               BuildCalls(FALSE), b.tag, RetPanic)
               /\ UNCHANGED <<tiles_by_key, uploads, handed, issued, frame,
                              last_sync_point>>
          ELSE \E tile \in {IF miss THEN r.tile ELSE cached} :
               \E st \in {IF miss THEN r.storage ELSE storage} :
               \E queued \in {IF miss
                               THEN Append(uploads,
                                           [id |-> tile.val.texture_id,
                                            bounds |-> tile.val.bounds,
                                            data |-> b.len])
                               ELSE uploads} :
               \E sprites \in {Batch("MonochromeSprites", 1, 0, 0,
                                      Some(tile.val.texture_id))} :
               \E pass \in {IF get_texture_info(st, tile.val.texture_id).some
                             THEN draw_mono_sprites_internal(1, sprites, 0,
                                      inst_size, sprites.texture_id,
                                      QueueAtPass(queued, st))
                             ELSE [offset |-> 0, overflow |-> FALSE,
                                   events |-> <<Warn(1, sprites.kind,
                                                     "no_texture", 1, 0)>>]} :
                  /\ UNCHANGED panicked
                  /\ storage' = st
                  /\ tiles_by_key' = [tiles_by_key EXCEPT ![key] = tile]
                  /\ handed' = [handed EXCEPT ![key] = tile]
                  /\ issued' = IF miss
                               THEN issued \cup {<<tile.val.texture_id,
                                                   tile.val.bounds>>}
                               ELSE issued
                  /\ stats' = [hits |-> 0, misses |-> 0]
                  /\ uploads' = Drain(queued, st)
                  /\ last' = Call("flush_uploads", 0, FALSE, 0, "-",
                                  RetFlushed(queued, st))
                  /\ frame' = [op |-> "draw_test_text",
                               scene |-> IF valid THEN <<sprites>> ELSE <<>>,
                               valid |-> valid,
                               events |-> FrameEvents(
                                   BeforeAcquire
                                      \o <<Step("insert"), Step("flush")>>,
                                   valid, pass.events),
                               end_offsets |-> frame.end_offsets,
                               again |-> FALSE,
                               wait |-> wait, gpu_busy |-> gpu_busy]
                  /\ last_sync_point' = IF valid THEN Some(SyncCount + 1)
                                        ELSE last_sync_point

\* the keys and build outcomes of the sprites the window inserts while
\* frames are drawn: a polychrome image (draw_test_text inserts a
\* monochrome glyph)
RendererKeys == {3}
RendererBuilds(key) ==
    {b \in BuildOutcomes(key) :
        /\ b.tag = "content" /\ b.size \in MismatchSizes
        /\ b.len = ExpectedLen(b.size, texture_kind(key))}

\* what frame.is_valid() may answer in the batch loop's specification; a
\* frame that fails to acquire returns before it looks at its scene, so the
\* failure is explored with one scene
AcquireOutcomes(scene) == IF scene = <<>> THEN BOOLEAN ELSE {TRUE}

\* the renderer is created over an empty atlas
RendererInit ==
    /\ storage = [kind \in Kinds |-> [textures |-> <<>>, free_list |-> <<>>]]
    /\ tiles_by_key = [k \in Keys |-> None]
    /\ uploads = <<>>
    /\ stats = [hits |-> 0, misses |-> 0]
    /\ gpu_textures = 0
    /\ panicked = FALSE
    /\ last = Call("new", 0, FALSE, 0, "-", RetUnit)
    /\ handed = [k \in Keys |-> None]
    /\ issued = {}
    /\ allocs = 0
    /\ frame = NoFrame
    /\ last_sync_point = None
    /\ inst_size \in InstanceSizes
    /\ window = AttachedWindow
    /\ renderer = Initialized(DefaultSurfaceSize)
    /\ PartsInit

\* a texture id that names no texture: the atlas never has a second
\* monochrome texture here
StaleTexture == [index |-> 1, kind |-> "Monochrome"]

\* sprite batches, a stale sprite batch and a small quad batch
SpriteBatches ==
    {b \in SceneBatches :
        b.texture_id.some \/ (b.kind = "Quads" /\ b.len = 3)}
    \cup {Batch("MonochromeSprites", 2, 0, 0, Some(StaleTexture))}

\* the scenes made of them: up to two batches
SpriteScenes ==
    {<<>>} \cup {<<a>> : a \in SpriteBatches}
           \cup {<<a, b>> : a, b \in SpriteBatches}

allvars == <<vars, rvars>>

\* the renderer and the atlas it shares with the window: sprites are
\* inserted between frames, frames draw sprite scenes, the screen is
\* cleared, test text is drawn
RendererNext ==
    \/ \E key \in RendererKeys : \E b \in RendererBuilds(key) :
          GetOrInsertContent(key, b) /\ UNCHANGED rvars
    \/ \E scene \in SpriteScenes : \E wait \in WaitResults :
       \E gpu_busy \in GpuBusyAfter(wait) : \E valid \in BOOLEAN :
          draw(scene, wait, gpu_busy, valid)
    \/ \E wait \in WaitResults : \E gpu_busy \in GpuBusyAfter(wait) :
       \E valid \in BOOLEAN :
          clear(wait, gpu_busy, valid)
    \/ \E b \in RendererBuilds(1) : \E wait \in WaitResults :
       \E gpu_busy \in GpuBusyAfter(wait) : \E valid \in BOOLEAN :
          draw_test_text(1, b, wait, gpu_busy, valid)

RendererSpec == RendererInit /\ [][RendererNext]_allvars

\* the waits of the batch loop's specification: the wait has no part in
\* the loop, so it always succeeds there
BatchWaits == WaitResults \ {"timeout"}

\* the batch loop of WebRenderer::draw over all scenes
BatchNext ==
    \/ \E key \in RendererKeys : \E b \in RendererBuilds(key) :
          GetOrInsertContent(key, b) /\ UNCHANGED rvars
    \/ \E scene \in Scenes : \E wait \in BatchWaits :
       \E valid \in AcquireOutcomes(scene) :
          draw(scene, wait, FALSE, valid)

BatchSpec == RendererInit /\ [][BatchNext]_allvars

(***************************************************************************)
(* Properties of the frame renderer.                                       *)
(***************************************************************************)
IsDraw(e) == e.ev = "draw"
IsOverflowWarn(e) == e.ev = "warn" /\ e.what = "overflow"
Framed == frame.op \in {"draw", "draw_test_text"}
Events == frame.events
EventIdx == 1..Len(frame.events)
\* capacity in bytes of the buffer an event is about
Capacity(e) == MaxPerBatch(e.kind) * size_of(e.kind, inst_size)
\* the instances an event put on the screen
Drawn(e) == IF IsDraw(e) THEN e.count ELSE 0

\* C13: in every frame flush_uploads runs before any draw call is issued:
\* every sprite draw call that binds a texture is issued while no upload for
\* that texture is queued, and right after the frame no upload is queued.
C13_FlushPrecedesDraw ==
    Framed =>
        /\ \A i \in EventIdx : IsDraw(Events[i]) =>
              /\ \E j \in 1..(i - 1) : Events[j].ev = "flush"
              /\ Events[i].texture.some => Events[i].queued = 0
        /\ last.op = "flush_uploads" => uploads = <<>>

\* C13 happens: the frame's flush wrote a queued upload and the frame then
\* drew sprites from the texture the upload went to
C13_Witness ==
    /\ frame.op = "draw" /\ frame.valid
    /\ last.op = "flush_uploads" /\ last.ret.written > 0
    /\ \E i \in EventIdx : IsDraw(Events[i]) /\ Events[i].texture.some

\* C14: the draw calls of a frame follow the order of the scene's batches:
\* no draw call of a later batch precedes one of an earlier batch, and a draw
\* call takes its instances from one batch only (its kind and no more
\* instances than that batch holds).
C14_PaintOrder ==
    frame.op = "draw" =>
        /\ \A i, j \in EventIdx :
              (i < j /\ IsDraw(Events[i]) /\ IsDraw(Events[j]))
                 => Events[i].batch <= Events[j].batch
        /\ \A i \in EventIdx : IsDraw(Events[i]) =>
              LET b == frame.scene[Events[i].batch]
              IN  /\ Events[i].kind = b.kind
                  /\ Events[i].count <=
                        (IF b.kind = "Paths" THEN b.vertices ELSE b.len)

\* C14 happens: a frame issued three draw calls for two batches of different
\* kinds (an underline batch has a straight and a wavy call)
C14_Witness ==
    /\ frame.op = "draw" /\ frame.valid
    /\ \E i, j, k \in EventIdx :
          /\ i < j /\ j < k
          /\ IsDraw(Events[i]) /\ IsDraw(Events[j]) /\ IsDraw(Events[k])
          /\ Events[i].batch # Events[k].batch
          /\ Events[i].kind # Events[k].kind

\* C15: every write of instance data into a kind's buffer ends inside the
\* buffer: offset + written bytes <= max instances of the kind * instance
\* size.
C15_BufferBound ==
    \A i \in EventIdx : IsDraw(Events[i]) =>
        Events[i].offset + Events[i].bytes <= Capacity(Events[i])

\* C15 happens: one write filled a buffer to its last byte and a later write
\* to the same buffer was refused
C15_Witness ==
    \E i, j \in EventIdx :
        /\ i < j /\ IsDraw(Events[i]) /\ IsOverflowWarn(Events[j])
        /\ Events[i].kind = Events[j].kind
        /\ Events[i].offset + Events[i].bytes = Capacity(Events[i])

\* C16: a non-empty batch of N instances of size S that arrives at offset O
\* with O + N*S above the buffer capacity is drawn with the largest number
\* of instances n such that O + n*S <= capacity.
C16_OverflowClamped ==
    \A i \in EventIdx :
        LET e == Events[i] IN
        ((IsDraw(e) \/ IsOverflowWarn(e))
           /\ e.offset + e.len * size_of(e.kind, inst_size) > Capacity(e))
        => Drawn(e) = (Capacity(e) - e.offset) \div size_of(e.kind, inst_size)

\* C17: a frame whose scene has exactly one quad batch, of more quads than
\* MAX_QUADS_PER_BATCH, issues exactly one quad draw call, of exactly
\* MAX_QUADS_PER_BATCH instances, and is submitted.
C17_OversizedQuadBatch ==
    (/\ frame.op = "draw" /\ frame.valid
     /\ Cardinality({b \in 1..Len(frame.scene) :
                        frame.scene[b].kind = "Quads"}) = 1
     /\ \E b \in 1..Len(frame.scene) :
           /\ frame.scene[b].kind = "Quads"
           /\ frame.scene[b].len > MAX_QUADS_PER_BATCH)
    => /\ Cardinality({i \in EventIdx : IsDraw(Events[i])
                                        /\ Events[i].kind = "Quads"}) = 1
       /\ \A i \in EventIdx :
             (IsDraw(Events[i]) /\ Events[i].kind = "Quads")
                => Events[i].count = MAX_QUADS_PER_BATCH
       /\ Events[Len(Events)].ev = "submit"
       /\ last_sync_point.some

\* C17 happens: a submitted frame drew 4096 of the 5000 quads of its only
\* quad batch and also drew a batch of another kind
C17_Witness ==
    /\ frame.op = "draw" /\ frame.valid
    /\ \E i, j \in EventIdx :
          /\ IsDraw(Events[i]) /\ Events[i].kind = "Quads"
          /\ Events[i].len = 5000 /\ Events[i].count = 4096
          /\ IsDraw(Events[j]) /\ Events[j].kind # "Quads"
    /\ Events[Len(Events)].ev = "submit"

\* C18: whenever a frame draws fewer instances of a batch than the batch
\* holds because of the buffer capacity (truncated or dropped), the frame
\* logs an overflow warning.
C18_OverflowLogged ==
    \A i \in EventIdx :
        ((IsDraw(Events[i]) \/ IsOverflowWarn(Events[i]))
           /\ Drawn(Events[i]) < Events[i].len)
        => \E j \in EventIdx : IsOverflowWarn(Events[j])

\* C19: within one frame and for each kind, the offsets at which successive
\* batches are written are non-decreasing and multiples of
\* STORAGE_BUFFER_ALIGNMENT.
C19_OffsetsMonotoneAligned ==
    /\ \A i \in EventIdx : IsDraw(Events[i]) =>
          Events[i].offset % STORAGE_BUFFER_ALIGNMENT = 0
    /\ \A i, j \in EventIdx :
          (i < j /\ IsDraw(Events[i]) /\ IsDraw(Events[j])
                 /\ Events[i].kind = Events[j].kind)
             => Events[i].offset <= Events[j].offset

\* C19 happens: a second batch of a kind was written at a padded offset,
\* after a first batch whose byte size is no multiple of the alignment
C19_Witness ==
    \E i, j \in EventIdx :
        /\ i < j /\ IsDraw(Events[i]) /\ IsDraw(Events[j])
        /\ Events[i].kind = Events[j].kind
        /\ Events[i].bytes % STORAGE_BUFFER_ALIGNMENT # 0
        /\ Events[j].offset > Events[i].offset + Events[i].bytes

\* the draw calls of a frame, in order
DrawCalls(f) == SelectSeq(f.events, IsDraw)
\* the first draw call of every kind is at offset 0
FirstAtZero(f) ==
    \A i \in 1..Len(f.events) :
        (/\ IsDraw(f.events[i])
         /\ \A j \in 1..(i - 1) : IsDraw(f.events[j])
                                     => f.events[j].kind # f.events[i].kind)
        => f.events[i].offset = 0

\* C20: every WebRenderer::draw writes the first drawn batch of each kind at
\* offset 0, whatever earlier frames drew; a frame that draws the scene the
\* frame right before drew issues the same draw calls at the same offsets.
C20_OffsetsResetPerFrame ==
    [][(frame'.op = "draw" /\ frame'.valid
          /\ last_sync_point' # last_sync_point)
        => /\ FirstAtZero(frame')
           /\ frame'.again => DrawCalls(frame') = DrawCalls(frame)]_allvars

\* C20 happens: the second of two frames with the same scene of two quad
\* batches has been drawn, the first batch again at offset 0
C20_Witness ==
    /\ frame.op = "draw" /\ frame.again
    /\ frame.end_offsets["Quads"] > 0
    /\ Len(DrawCalls(frame)) > 1
    /\ DrawCalls(frame)[1].offset = 0

\* a step of WebRenderer::draw: the only step that flushes the atlas and
\* records a frame of draw
DrawStep == frame'.op = "draw" /\ last'.op = "flush_uploads"
\* the steps of a frame that encode or hand work to the GPU
EncodingSteps == {"start", "begin_pass", "draw", "end_pass", "present",
                  "submit"}
IsAcquireAttempt(e) ==
    e.ev = "acquire" \/ (e.ev = "warn" /\ e.what = "acquire")
IsNoTextureWarn(e) == e.ev = "warn" /\ e.what = "no_texture"

\* C21: when the surface image cannot be acquired, WebRenderer::draw gives
\* the frame up: it makes one acquire attempt, starts no encoding, issues no
\* draw call, presents and submits nothing, and last_sync_point keeps its
\* value; the draw after a failed one makes an acquire attempt again.
C21_AcquireFailureAbandons ==
    [][DrawStep =>
         /\ Cardinality({i \in 1..Len(frame'.events) :
                            IsAcquireAttempt(frame'.events[i])}) = 1
         /\ ~frame'.valid =>
               /\ \A i \in 1..Len(frame'.events) :
                     frame'.events[i].ev \notin EncodingSteps
               /\ last_sync_point' = last_sync_point]_allvars

\* C21 happens: a draw failed to acquire after an earlier frame was
\* submitted; it waited, flushed a queued upload and then gave up
C21_Witness ==
    /\ frame.op = "draw" /\ ~frame.valid
    /\ last_sync_point.some /\ frame.wait = "done"
    /\ last.op = "flush_uploads" /\ last.ret.written > 0
    /\ Events[Len(Events)].ev = "warn"

\* C22: a timeout of the wait on the last sync point is not fatal: the draw
\* does not panic, goes on to flush the uploads and to acquire the surface
\* image and, when that succeeds, encodes the pass and submits the frame.
C22_WaitTimeoutNonFatal ==
    [][(DrawStep /\ frame'.wait = "timeout") =>
         /\ panicked' = panicked
         /\ Len(frame'.events) >= 3
         /\ frame'.events[1].ev = "wait"
         /\ frame'.events[2].ev = "flush"
         /\ uploads' = <<>>
         /\ IsAcquireAttempt(frame'.events[3])
         /\ frame'.valid =>
               /\ frame'.events[Len(frame'.events)].ev = "submit"
               /\ last_sync_point' = Some(SyncCount + 1)]_allvars

\* C22 happens: a submitted frame drew sprites although its wait timed out
C22_Witness ==
    /\ frame.op = "draw" /\ frame.valid /\ frame.wait = "timeout"
    /\ \E i \in EventIdx : IsDraw(Events[i]) /\ Events[i].texture.some
    /\ Events[Len(Events)].ev = "submit"

\* C23: whenever a frame writes instance data into an instance buffer, the
\* GPU has finished the frame submitted before it.
C23_NoWriteWhileRead ==
    (Framed /\ \E i \in EventIdx : IsDraw(Events[i])) => ~frame.gpu_busy

\* C24: a sprite batch whose texture id names no texture of the atlas is
\* skipped with a warning: no draw call is issued for it, the running
\* offset of its kind is where it was (the next batch of the kind is written
\* there, or the offset ends there), every other batch is still looked at
\* and the frame is presented and submitted.
C24_MissingTextureSkipped ==
    (frame.op = "draw" /\ frame.valid) =>
        /\ \A b \in 1..Len(frame.scene) :
              (/\ frame.scene[b].texture_id.some
               /\ ~StorageGet(storage, frame.scene[b].texture_id.val).some)
              => /\ \A i \in EventIdx :
                       IsDraw(Events[i]) => Events[i].batch # b
                 /\ \E i \in EventIdx :
                       IsNoTextureWarn(Events[i]) /\ Events[i].batch = b
        /\ \A i \in EventIdx : IsNoTextureWarn(Events[i]) =>
              LET later == {j \in EventIdx :
                              /\ j > i /\ IsDraw(Events[j])
                              /\ Events[j].kind = Events[i].kind}
              IN  /\ later = {} =>
                        frame.end_offsets[Events[i].kind] = Events[i].offset
                  /\ \A j \in later :
                        (\A k \in later : j <= k)
                           => Events[j].offset = Events[i].offset
                  /\ \A b \in (Events[i].batch + 1)..Len(frame.scene) :
                        \E j \in EventIdx : j > i /\ Events[j].batch = b
        /\ Events[Len(Events)].ev = "submit"
        /\ Events[Len(Events) - 1].ev = "present"

\* C24 happens: a frame drew a sprite batch, skipped a later batch of the
\* same kind whose texture does not exist and was submitted
C24_Witness ==
    /\ frame.op = "draw" /\ frame.valid
    /\ \E i, j \in EventIdx :
          /\ i < j /\ IsDraw(Events[i]) /\ IsNoTextureWarn(Events[j])
          /\ Events[i].kind = Events[j].kind
          /\ Events[j].offset > 0
    /\ Events[Len(Events)].ev = "submit"

\* a batch the loop has nothing to draw for: no primitives, paths without
\* vertices, or a variant the match does not name
NothingToDraw(batch) ==
    \/ batch.len = 0
    \/ batch.kind = "Paths" /\ batch.vertices = 0
    \/ batch.kind \notin BufferKinds
\* events that tell the running offset of their kind
HasOffset(e) == e.ev = "draw" \/ (e.ev = "warn" /\ e.kind \in BufferKinds)
\* ceil(n / A) * A
CeilAligned(n) ==
    ((n + STORAGE_BUFFER_ALIGNMENT - 1) \div STORAGE_BUFFER_ALIGNMENT)
        * STORAGE_BUFFER_ALIGNMENT
\* the running offset of a kind as the frame shows it next: at the first
\* event of the kind among the events in later, or at the end of the pass
NextOffset(kind, later) ==
    LET of_kind == {j \in later : HasOffset(Events[j])
                                    /\ Events[j].kind = kind}
    IN  IF of_kind = {} THEN frame.end_offsets[kind]
        ELSE Events[CHOOSE j \in of_kind : \A k \in of_kind : j <= k].offset
\* the running offset of a kind after the draw calls of the batches before
\* batch b
OffsetBefore(kind, b) ==
    LET ds == {i \in EventIdx : /\ IsDraw(Events[i])
                                 /\ Events[i].kind = kind
                                 /\ Events[i].batch < b}
    IN  IF ds = {} THEN 0
        ELSE LET l == CHOOSE i \in ds : \A k \in ds : k <= i
             IN  CeilAligned(Events[l].offset + Events[l].bytes)

\* C25: a batch that is empty (no instances, or paths with no vertex) or of
\* an unsupported variant issues no draw call and no log line, and leaves
\* the running offset of every kind where the batches before it left it.
C25_EmptyBatchNoEffect ==
    (frame.op = "draw" /\ frame.valid) =>
        \A b \in 1..Len(frame.scene) : NothingToDraw(frame.scene[b]) =>
            /\ \A i \in EventIdx :
                  (IsDraw(Events[i]) \/ Events[i].ev = "warn")
                     => Events[i].batch # b
            /\ \A kind \in BufferKinds :
                  NextOffset(kind, {j \in EventIdx :
                                      /\ HasOffset(Events[j])
                                      /\ Events[j].batch > b})
                     = OffsetBefore(kind, b)

\* C25 happens: a frame drew a quad batch and then met an empty quad batch;
\* the quad offset ended where the first batch left it
C25_Witness ==
    /\ frame.op = "draw" /\ frame.valid
    /\ Len(frame.scene) = 2
    /\ frame.scene[1].kind = "Quads" /\ frame.scene[1].len > 0
    /\ frame.scene[2].kind = "Quads" /\ frame.scene[2].len = 0
    /\ Len(DrawCalls(frame)) = 1
    /\ frame.end_offsets["Quads"] > 0

\* C30: after N instances of size S are written and drawn at offset O, the
\* running offset of the kind is exactly ceil((O + N*S) / 256) * 256, N
\* being the number of instances drawn; after a batch that is dropped for
\* lack of room or skipped for lack of a texture it is still O.
C30_NextOffsetExact ==
    (frame.op = "draw" /\ frame.valid) =>
        \A i \in EventIdx :
            LET e == Events[i]
                next == NextOffset(e.kind, {j \in EventIdx : j > i})
            IN  /\ IsDraw(e) =>
                      next = CeilAligned(e.offset
                                + e.count * size_of(e.kind, inst_size))
                /\ (IsOverflowWarn(e) \/ IsNoTextureWarn(e)) =>
                      next = e.offset

\* C30 happens: a quad batch was drawn at offset 0 and left the offset at a
\* padded value; the next quad batch met that offset, found no room and was
\* dropped, and the offset ended there
C30_Witness ==
    /\ frame.op = "draw" /\ frame.valid
    /\ \E i, j \in EventIdx :
          /\ i < j /\ IsDraw(Events[i]) /\ IsOverflowWarn(Events[j])
          /\ Events[i].kind = Events[j].kind
          /\ Events[i].offset = 0
          /\ Events[j].offset > Events[i].bytes
          /\ frame.end_offsets[Events[j].kind] = Events[j].offset

\* the steps of a frame other than its draw calls and log lines, by name
IsStep(e) == e.ev \notin {"draw", "warn"}
StepNames(events) ==
    LET steps == SelectSeq(events, IsStep)
    IN  [i \in 1..Len(steps) |-> steps[i].ev]
\* the position of the only step of that name
StepAt(events, name) ==
    CHOOSE i \in 1..Len(events) : events[i].ev = name

ClientSizes == {[width |-> 800, height |-> 600],
                [width |-> 1024, height |-> 768]}
\* window.devicePixelRatio
ScaleFactors == {1, 2}
\* the scenes the window draws
WindowScenes == {<<>>, <<Batch("Quads", 3, 0, 0, None)>>}

\* WebWindow::new: `(width * scale_factor) as u32`
DeviceSize(size, scale_factor) ==
    [width |-> F32AsU32(size.width * scale_factor),
     height |-> F32AsU32(size.height * scale_factor)]

\* the sizes WebSurfaceConfig is built with: the default, which is the
\* device size of an 800x600 canvas at scale factor 1, and that canvas'
\* device size at scale factor 2
ConfigSizes ==
    {DeviceSize(DefaultSurfaceSize, scale_factor) :
        scale_factor \in ScaleFactors}

\* WebRenderer::new and WebWindow::new: no state in the renderer, no
\* renderer in the window
WindowInit ==
    /\ storage = [kind \in Kinds |-> [textures |-> <<>>, free_list |-> <<>>]]
    /\ tiles_by_key = [k \in Keys |-> None]
    /\ uploads = <<>>
    /\ stats = [hits |-> 0, misses |-> 0]
    /\ gpu_textures = 0
    /\ panicked = FALSE
    /\ last = Call("new", 0, FALSE, 0, "-", RetUnit)
    /\ handed = [k \in Keys |-> None]
    /\ issued = {}
    /\ allocs = 0
    /\ frame = NoFrame
    /\ last_sync_point = None
    /\ inst_size = 64
    /\ \E size \in ClientSizes : \E scale_factor \in ScaleFactors :
          window = [renderer |-> FALSE, size |-> size,
                    scale_factor |-> scale_factor, resized |-> FALSE]
    /\ renderer = None
    /\ PartsInit

\* WebRenderer::initialize_async: Err leaves the renderer without state
initialize_async(size, ok) ==
    /\ ~IsInitialized(renderer)
    /\ renderer' = IF ok THEN Initialized(size) ELSE renderer
    /\ UNCHANGED <<frame, last_sync_point, inst_size, pvars, window>>
    /\ UNCHANGED vars

\* WebWindow::set_renderer
set_renderer ==
    /\ window' = [window EXCEPT !.renderer = TRUE]
    /\ UNCHANGED <<frame, last_sync_point, inst_size, pvars, renderer>>
    /\ UNCHANGED vars

\* the resize listener and WebWindow::handle_resize: the bounds take the
\* canvas' client size and the resize callback is called with the size
\* and the scale factor; the renderer is not reached
handle_resize(width, height) ==
    /\ window' = [window EXCEPT !.size = [width |-> width,
                                          height |-> height],
                                !.resized = TRUE]
    /\ UNCHANGED <<frame, last_sync_point, inst_size, pvars, renderer>>
    /\ UNCHANGED vars

\* WebRenderer::update_drawable_size
update_drawable_size(size) ==
    /\ renderer' =
          IF IsInitialized(renderer)
          THEN [some |-> TRUE,
                drawable_size |-> size,
                surface_size |-> [width |-> AsU32(size.width),
                                  height |-> AsU32(size.height)],
                msaa_size |-> [width |-> AsU32(size.width),
                               height |-> AsU32(size.height)],
                viewport_size |-> [width |-> AsF32(size.width),
                                   height |-> AsF32(size.height)]]
          ELSE renderer
    /\ UNCHANGED <<frame, last_sync_point, inst_size, pvars, window>>
    /\ UNCHANGED vars

\* WebWindow::draw
window_draw(scene, wait, gpu_busy, valid) ==
    IF window.renderer THEN draw(scene, wait, gpu_busy, valid)
    ELSE /\ frame' = [NoFrame EXCEPT
                         !.op = "window_draw",
                         !.events = <<Warn(0, "-", "no_renderer", 0, 0)>>]
         /\ FrameFunctionRan
         /\ UNCHANGED <<last_sync_point, inst_size, pvars, renderer>>
         /\ UNCHANGED vars

\* a window from its creation on: the renderer is initialized and
\* attached in either order, or never; the browser resizes the canvas;
\* sprites go into the renderer's atlas once it exists; scenes are drawn
\* through the window and on the renderer
WindowNext ==
    \/ \E size \in ConfigSizes : \E ok \in BOOLEAN :
          initialize_async(size, ok)
    \/ set_renderer
    \/ \E size \in ClientSizes : handle_resize(size.width, size.height)
    \/ \E size \in {DeviceSize(window.size, window.scale_factor)} :
          update_drawable_size(size)
    \/ \E key \in RendererKeys : \E b \in RendererBuilds(key) :
          /\ IsInitialized(renderer)
          /\ GetOrInsertContent(key, b)
          /\ UNCHANGED rvars
    \/ \E scene \in WindowScenes : \E wait \in WaitResults :
       \E gpu_busy \in GpuBusyAfter(wait) : \E valid \in BOOLEAN :
          window_draw(scene, wait, gpu_busy, valid)
    \/ \E scene \in WindowScenes : \E wait \in WaitResults :
       \E gpu_busy \in GpuBusyAfter(wait) : \E valid \in BOOLEAN :
          draw(scene, wait, gpu_busy, valid)

WindowSpec == WindowInit /\ [][WindowNext]_allvars

\* the four sizes of an initialized renderer are the size s
SizesAre(s) ==
    /\ renderer.surface_size = s
    /\ renderer.msaa_size = s
    /\ renderer.drawable_size = s
    /\ renderer.viewport_size = s

\* C26: after a viewport resize and before the next draw, the surface
\* configuration size, the multisample target size, drawable_size and the
\* viewport_size uniform of the window's renderer all equal the new size,
\* in CSS or in device pixels; and the four sizes agree in every state
\* after initialization.
C26_ResizeReachesRenderer ==
    IsInitialized(renderer) =>
        /\ SizesAre(renderer.surface_size)
        /\ (window.renderer /\ window.resized) =>
              \/ SizesAre(window.size)
              \/ SizesAre(DeviceSize(window.size, window.scale_factor))

\* C28: WebRenderer::draw on a renderer without state, and WebWindow::draw
\* on a window without renderer, does nothing but log: the atlas is not
\* flushed and nothing of it changes, no frame is acquired, nothing is
\* submitted, last_sync_point stays, nothing panics.
C28_DrawBeforeInitNoOp ==
    [][(frame' # frame /\ (~renderer.some \/ ~window.renderer)
          /\ (renderer.some => frame'.op = "window_draw"))
       =>
         /\ UNCHANGED vars
         /\ last_sync_point' = last_sync_point
         /\ renderer' = renderer
         /\ ~panicked'
         /\ frame'.events # <<>>
         /\ \A i \in 1..Len(frame'.events) : frame'.events[i].ev = "warn"
      ]_allvars

\* C28 happens: draw was called on the attached renderer before its
\* initialization, and logged that
C28_Witness ==
    /\ window.renderer
    /\ ~renderer.some
    /\ frame.op = "draw"
    /\ frame.events = <<Warn(0, "-", "uninitialized", 0, 0)>>

\* ---------------------------------------------------------------------
\* Underline sub-batches
\* ---------------------------------------------------------------------

\* the draw calls of batch b in the frame
DrawsOf(b) == {i \in EventIdx : IsDraw(Events[i]) /\ Events[i].batch = b}
\* the last of a non-empty set of event indices
LastOf(is) == CHOOSE i \in is : \A k \in is : k <= i

\* C31: an underline batch is drawn as a straight sub-batch followed by a
\* wavy sub-batch, with distinct pipelines, out of the underline buffer:
\* the straight call holds the straight underlines and the wavy call the
\* wavy ones, the wavy sub-batch is written at the aligned end of the
\* straight sub-batch's range, the two byte ranges are disjoint, and the
\* offset handed back to the frame loop is the aligned end of the last
\* sub-batch drawn.
C31_UnderlineSubBatches ==
    (frame.op = "draw" /\ frame.valid) =>
        \A b \in 1..Len(frame.scene) :
            frame.scene[b].kind = "Underlines" =>
                /\ \A i \in DrawsOf(b) :
                      /\ Events[i].kind = "Underlines"
                      /\ \/ /\ Events[i].pipeline = "underlines"
                            /\ Events[i].len =
                                  frame.scene[b].len - frame.scene[b].wavy
                         \/ /\ Events[i].pipeline = "underlines_wavy"
                            /\ Events[i].len = frame.scene[b].wavy
                /\ \A i, j \in DrawsOf(b) : i < j =>
                      /\ Events[i].pipeline = "underlines"
                      /\ Events[j].pipeline = "underlines_wavy"
                      /\ Events[j].offset =
                            CeilAligned(Events[i].offset + Events[i].bytes)
                      /\ Events[i].offset + Events[i].bytes
                            <= Events[j].offset
                /\ DrawsOf(b) # {} =>
                      NextOffset("Underlines",
                                 {j \in EventIdx : j > LastOf(DrawsOf(b))})
                         = CeilAligned(Events[LastOf(DrawsOf(b))].offset
                                       + Events[LastOf(DrawsOf(b))].bytes)

\* C31 happens: a frame drew one underline batch of three straight and two
\* wavy underlines as two draw calls, the wavy one behind the straight one
C31_Witness ==
    /\ frame.op = "draw" /\ frame.valid
    /\ Len(frame.scene) = 1
    /\ frame.scene[1].kind = "Underlines"
    /\ \E i, j \in DrawsOf(1) :
          /\ i < j
          /\ Events[i].pipeline = "underlines" /\ Events[i].count = 3
          /\ Events[j].pipeline = "underlines_wavy" /\ Events[j].count = 2
          /\ Events[j].offset = STORAGE_BUFFER_ALIGNMENT
    /\ frame.end_offsets["Underlines"] = 2 * STORAGE_BUFFER_ALIGNMENT

\* ---------------------------------------------------------------------
\* get_or_insert_with step by step: the RefCell borrow around build
\* ---------------------------------------------------------------------

\* the renderer's and the window's variables
fvars == <<frame, last_sync_point, inst_size, window, renderer>>

\* what build returns here: an error, no content, or a 400x400 tile
AtomBuilds(key) ==
    {b \in BuildOutcomes(key) :
        b.tag = "content" =>
           /\ b.size = [width |-> 400, height |-> 400]
           /\ b.len = ExpectedLen(b.size, texture_kind(key))}
\* the atlas operations a build callback may call
ReentrantOps == {"get_or_insert_with", "remove", "flush_uploads", "destroy"}

\* what the atlas holds
AtlasState == <<storage, tiles_by_key, uploads, stats, gpu_textures>>

\* a borrow that succeeds although the cell is borrowed
try_borrow_mut_Always(b) == TRUE

\* RefCell::borrow_mut succeeds only on a cell that is not borrowed;
\* otherwise it panics
try_borrow_mut(b) == b.state = "free"

\* get_or_insert_with up to the call of build on a miss: the cell is
\* borrowed, the key is looked up and not found, the miss is counted
BeginMiss(key) ==
    /\ ~panicked
    /\ borrow.state = "free"
    /\ try_borrow_mut(borrow)
    /\ ~CacheGet(tiles_by_key, key).some
    /\ stats.misses < MaxStat
    /\ stats' = [stats EXCEPT !.misses = @ + 1]
    /\ borrow' = [state |-> "building", key |-> key,
                  seen |-> <<storage, tiles_by_key, uploads, stats',
                             gpu_textures>>,
                  reentered |-> FALSE]
    /\ UNCHANGED <<storage, tiles_by_key, uploads, gpu_textures, panicked,
                   last, handed, issued, allocs>>
    /\ UNCHANGED <<fvars, fallback, dispatcher, input>>

\* build calls an atlas operation: the operation starts with borrow_mut
\* on the cell the outer call holds
Reenter(op, key) ==
    /\ ~panicked
    /\ borrow.state = "building"
    /\ borrow' = [borrow EXCEPT !.reentered = TRUE]
    /\ UNCHANGED <<fvars, fallback, dispatcher, input>>
    /\ IF ~try_borrow_mut(borrow)
       THEN /\ panicked' = TRUE
            /\ last' = Call(op, key, FALSE, 0, "-", RetPanic)
            /\ UNCHANGED <<storage, tiles_by_key, uploads, stats,
                           gpu_textures, handed, issued, allocs>>
       ELSE \/ op = "get_or_insert_with" /\ GetOrInsertHit(key)
            \/ op = "remove" /\ remove(key)
            \/ op = "flush_uploads" /\ flush_uploads
            \/ op = "destroy" /\ destroy

\* build returns and get_or_insert_with runs to its end; the borrow ends
\* with the call
Finish(b) ==
    /\ ~panicked
    /\ borrow.state = "building"
    /\ UNCHANGED <<fvars, fallback, dispatcher, input>>
    /\ IF b.tag \in {"err", "none"}
       THEN /\ last' = Call("get_or_insert_with", borrow.key, FALSE,
                            BuildCalls(FALSE), b.tag,
                            IF b.tag = "err" THEN RetErr ELSE RetOk(None))
            /\ borrow' = Unborrowed
            /\ UNCHANGED <<storage, tiles_by_key, uploads, stats,
                           gpu_textures, panicked, handed, issued, allocs>>
       ELSE /\ allocs < MaxAllocs
            /\ \E raw \in {gpu_textures + 1} :
               \E r \in {allocate(storage, b.size, texture_kind(borrow.key),
                                  raw)} :
               /\ allocs' = allocs + 1
               /\ storage' = r.storage
               /\ gpu_textures' = IF r.created THEN raw ELSE gpu_textures
               /\ UNCHANGED stats
               /\ IF r.panic
                  THEN /\ panicked' = TRUE
                       /\ last' = Call("get_or_insert_with", borrow.key,
                                       FALSE, BuildCalls(FALSE), b.tag,
                                       RetPanic)
                       /\ UNCHANGED <<tiles_by_key, uploads, handed, issued,
                                      borrow>>
                  ELSE /\ uploads' = Append(uploads,
                                        [id |-> r.tile.val.texture_id,
                                         bounds |-> r.tile.val.bounds,
                                         data |-> b.len])
                       /\ tiles_by_key' =
                             [tiles_by_key EXCEPT ![borrow.key] = r.tile]
                       /\ last' = Call("get_or_insert_with", borrow.key,
                                       FALSE, BuildCalls(FALSE), b.tag,
                                       RetOk(r.tile))
                       /\ handed' = [handed EXCEPT ![borrow.key] = r.tile]
                       /\ issued' = issued \cup
                             {<<r.tile.val.texture_id, r.tile.val.bounds>>}
                       /\ borrow' = Unborrowed
                       /\ UNCHANGED panicked

\* the atlas with its callers: calls from outside come one after the
\* other, a build callback may call back into the atlas
AtomNext ==
    \/ \E key \in Keys :
          borrow.state = "free" /\ GetOrInsertHit(key) /\ UNCHANGED rvars
    \/ \E key \in Keys : BeginMiss(key)
    \/ \E op \in ReentrantOps : \E key \in Keys : Reenter(op, key)
    \/ \E b \in AtomBuilds(borrow.key) : Finish(b)
    \/ \E key \in Keys :
          borrow.state = "free" /\ remove(key) /\ UNCHANGED rvars
    \/ borrow.state = "free" /\ flush_uploads /\ UNCHANGED rvars

AtomSpec == Init /\ [][AtomNext]_allvars

\* C37: get_or_insert_with is atomic with respect to every other atlas
\* operation: while build runs for a miss, the atlas holds what it held
\* when the miss was found and counted, the key is still not cached, and a
\* build that has called back into the atlas has made the thread panic.
C37_BuildHoldsBorrow ==
    borrow.state = "building" =>
        /\ AtlasState = borrow.seen
        /\ ~CacheGet(tiles_by_key, borrow.key).some
        /\ borrow.reentered => panicked

\* C37 happens: while build ran for a key, it called remove for another
\* key that is cached; the call panicked and the key is still cached
C37_Witness ==
    /\ borrow.state = "building" /\ borrow.reentered
    /\ panicked
    /\ last.op = "remove" /\ last.ret = RetPanic
    /\ last.key # borrow.key
    /\ tiles_by_key[last.key].some

\* ---------------------------------------------------------------------
\* The window's fallback atlas (WebAtlas), used until a renderer is
\* attached.  Its lock is released while build runs, so a build may call
\* the atlas again; on the one thread of the browser calls nest.
\* ---------------------------------------------------------------------

\* number of builds started
MaxBuilds == 3
\* what build returns to the fallback atlas; the bytes are not looked at
FallbackBuilds ==
    {[tag |-> t, size |-> NoSize] : t \in {"err", "none"}}
    \cup {[tag |-> "content", size |-> [width |-> 400, height |-> 400]]}

\* the tile WebAtlas makes: both ids come from next_id, the origin is
\* Point::default()
FallbackTile(texture_id, tile_id, size) ==
    [texture_id |-> [index |-> texture_id, kind |-> "Monochrome"],
     tile_id |-> tile_id, padding |-> 0,
     bounds |-> [origin |-> [x |-> 0, y |-> 0], size |-> size]]

\* WebAtlas::get_or_insert_with, the key is cached: the tile is returned
fallback_hit(key) ==
    /\ fallback.tiles[key].some
    /\ fallback' = [fallback EXCEPT
                       !.given[key] = @ \cup {fallback.tiles[key].val},
                       !.ret = [op |-> "hit", key |-> key,
                                tile |-> fallback.tiles[key]]]
    /\ UNCHANGED <<vars, fvars, borrow, dispatcher, input>>

\* WebAtlas::get_or_insert_with, the key is not cached: the lock is
\* dropped and build is called
fallback_begin(key) ==
    /\ ~fallback.tiles[key].some
    /\ fallback.builds < MaxBuilds
    /\ fallback' = [fallback EXCEPT !.building = Append(@, key),
                                    !.builds = @ + 1]
    /\ UNCHANGED <<vars, fvars, borrow, dispatcher, input>>

\* the innermost build returns and its get_or_insert_with runs to its
\* end: on content two ids are taken and the tile is inserted under the
\* key and returned
fallback_finish(b) ==
    /\ fallback.building # <<>>
    /\ LET n == Len(fallback.building)
           key == fallback.building[n]
           texture_id == fallback.next_id + 1
           tile_id == fallback.next_id + 2
           tile == FallbackTile(texture_id, tile_id, b.size)
       IN  fallback' =
              IF b.tag = "content"
              THEN [fallback EXCEPT
                       !.building = SubSeq(@, 1, n - 1),
                       !.next_id = tile_id,
                       !.tiles[key] = Some(tile),
                       !.given[key] = @ \cup {tile},
                       !.ret = [op |-> "miss", key |-> key,
                                tile |-> Some(tile)]]
              ELSE [fallback EXCEPT
                       !.building = SubSeq(@, 1, n - 1),
                       !.ret = [op |-> "miss", key |-> key,
                                tile |-> None]]
    /\ UNCHANGED <<vars, fvars, borrow, dispatcher, input>>

\* WebAtlas::remove
fallback_remove(key) ==
    /\ fallback' = [fallback EXCEPT
                       !.tiles[key] = None, !.given[key] = {},
                       !.ret = [op |-> "remove", key |-> key,
                                tile |-> None]]
    /\ UNCHANGED <<vars, fvars, borrow, dispatcher, input>>

\* calls from the window's users and from builds that are running
FallbackNext ==
    \/ \E key \in Keys : fallback_hit(key)
    \/ \E key \in Keys : fallback_begin(key)
    \/ \E b \in FallbackBuilds : fallback_finish(b)
    \/ \E key \in Keys : fallback_remove(key)

FallbackSpec == WindowInit /\ [][FallbackNext]_allvars

\* C38: for each key, all get_or_insert_with calls of the fallback atlas
\* since the key's last remove have returned the same tile, also when a
\* build calls the atlas again.
C38_FallbackTileStable ==
    \A key \in Keys : Cardinality(fallback.given[key]) <= 1

\* ---------------------------------------------------------------------
\* WebDispatcher: a queue of runnables behind a mutex that is not
\* re-entrant.  dispatcher.stack is the call stack of the one browser
\* thread: "poll" for a running poll, a task for a running runnable.
\* enqueued and ran record the runnables in the order they were pushed
\* and in the order run() was called on them.
\* ---------------------------------------------------------------------

\* number of runnables dispatched
MaxTasks == 3
\* the two trait methods that push a runnable
DispatchMethods == {"dispatch", "dispatch_on_main_thread"}
Polling == [f |-> "poll"]

\* whether a task is running, and with it whether the caller is inside
\* a poll
InTask ==
    /\ dispatcher.stack # <<>>
    /\ dispatcher.stack[Len(dispatcher.stack)] # Polling
InPoll ==
    /\ dispatcher.stack # <<>>
    /\ dispatcher.stack[Len(dispatcher.stack)] = Polling

\* `let task = self.main_thread_tasks.lock().pop_front();`: the guard is
\* a temporary of the let statement and is dropped at its end, before
\* the match runs the task
GuardHeldDuringRun_Scrutinee == TRUE
GuardHeldDuringRun == FALSE

\* self.main_thread_tasks.lock().push_back(runnable): locking a
\* parking_lot mutex the thread already holds never returns
push_back(via) ==
    /\ ~dispatcher.deadlocked
    /\ Len(dispatcher.enqueued) < MaxTasks
    /\ LET task == [id |-> Len(dispatcher.enqueued) + 1, via |-> via,
                    inpoll |-> InTask]
       IN  dispatcher' =
              IF dispatcher.locked
              THEN [dispatcher EXCEPT !.deadlocked = TRUE,
                                      !.returned = FALSE]
              ELSE [dispatcher EXCEPT !.queue = Append(@, task),
                                      !.enqueued = Append(@, task),
                                      !.returned = FALSE]
    /\ UNCHANGED <<vars, fvars, borrow, fallback, input>>

\* PlatformDispatcher::dispatch, from an event handler or a running task
dispatch ==
    /\ dispatcher.stack = <<>> \/ InTask
    /\ push_back("dispatch")
\* PlatformDispatcher::dispatch_on_main_thread
dispatch_on_main_thread ==
    /\ dispatcher.stack = <<>> \/ InTask
    /\ push_back("dispatch_on_main_thread")

\* poll is called: by the animation frame loop, or by a running task
poll_begin ==
    /\ ~dispatcher.deadlocked
    /\ dispatcher.stack = <<>> \/ InTask
    /\ dispatcher' = [dispatcher EXCEPT !.stack = Append(@, Polling),
                                        !.returned = FALSE]
    /\ UNCHANGED <<vars, fvars, borrow, fallback, input>>

\* one turn of poll's loop up to the call of run(), or the break
poll_step ==
    /\ ~dispatcher.deadlocked
    /\ InPoll
    /\ LET n == Len(dispatcher.stack)
       IN  dispatcher' =
              IF dispatcher.locked
              THEN [dispatcher EXCEPT !.deadlocked = TRUE]
              ELSE IF dispatcher.queue = <<>>
              THEN [dispatcher EXCEPT
                       !.stack = SubSeq(@, 1, n - 1),
                       !.returned = TRUE]
              ELSE [dispatcher EXCEPT
                       !.queue = Tail(@),
                       !.locked = GuardHeldDuringRun,
                       !.stack = Append(@, Head(dispatcher.queue)),
                       !.ran = Append(@, Head(dispatcher.queue))]
    /\ UNCHANGED <<vars, fvars, borrow, fallback, input>>

\* runnable.run() returns to poll's loop
run_returns ==
    /\ ~dispatcher.deadlocked
    /\ InTask
    /\ dispatcher' = [dispatcher EXCEPT
                         !.stack = SubSeq(@, 1, Len(@) - 1),
                         !.locked = FALSE,
                         !.returned = FALSE]
    /\ UNCHANGED <<vars, fvars, borrow, fallback, input>>

DispatcherNext ==
    \/ dispatch
    \/ dispatch_on_main_thread
    \/ poll_begin
    \/ poll_step
    \/ run_returns

DispatcherSpec == Init /\ [][DispatcherNext]_allvars

\* C39: the runnables are run in the order they were pushed, each once
\* and none lost (what has run followed by what is queued is what was
\* pushed); when a poll returns the queue is empty; a running task's
\* dispatch never blocks on the queue's lock, and outside any poll no
\* runnable that a task pushed inside a poll is still waiting.
C39_FifoExactlyOnce ==
    /\ dispatcher.ran \o dispatcher.queue = dispatcher.enqueued
    /\ \A i, j \in 1..Len(dispatcher.ran) :
          i # j => dispatcher.ran[i] # dispatcher.ran[j]
    /\ dispatcher.returned => dispatcher.queue = <<>>
    /\ ~dispatcher.deadlocked
    /\ dispatcher.stack = <<>> =>
          \A i \in 1..Len(dispatcher.queue) : ~dispatcher.queue[i].inpoll
\* a poll has returned after running a task that another task pushed
\* while it ran inside that poll
C39_Witness ==
    /\ dispatcher.returned
    /\ dispatcher.stack = <<>>
    /\ \E i \in 1..Len(dispatcher.ran) :
          dispatcher.ran[i].inpoll /\ dispatcher.ran[i].via = "dispatch"

\* ---------------------------------------------------------------------
\* The window's input callback.  dispatch_input takes the callback out
\* of its slot while it runs and puts it back afterwards.  input.running
\* is the stack of callback invocations in progress; delivered and
\* dropped record the events handed to a callback and the events
\* answered with the default result.
\* ---------------------------------------------------------------------

\* number of dispatch_input calls
MaxEvents == 3
\* the closures handed to on_input
Callbacks == {1, 2}
\* kinds of PlatformInput
InputKinds == {"MouseDown", "KeyDown"}

\* PlatformWindow::on_input, from the application or from inside the
\* input callback
on_input(cb) ==
    /\ input' = [input EXCEPT !.callback = Some(cb), !.registered = TRUE]
    /\ UNCHANGED <<vars, fvars, borrow, fallback, dispatcher>>

\* WebWindow::dispatch_input up to the call of the callback, or all of
\* it when the slot is empty
dispatch_input(kind) ==
    /\ input.dispatched < MaxEvents
    /\ LET event == [id |-> input.dispatched + 1, kind |-> kind,
                     registered |-> input.registered,
                     nested |-> input.running # <<>>]
       IN  input' =
              IF input.callback.some
              THEN [input EXCEPT
                       !.callback = None,
                       !.dispatched = @ + 1,
                       !.running = Append(@, [event |-> event,
                                              cb |-> input.callback.val]),
                       !.delivered = Append(@, event)]
              ELSE [input EXCEPT
                       !.dispatched = @ + 1,
                       !.dropped = Append(@, event)]
    /\ UNCHANGED <<vars, fvars, borrow, fallback, dispatcher>>

\* the innermost callback returns and dispatch_input puts it back
callback_returns ==
    /\ input.running # <<>>
    /\ LET n == Len(input.running)
       IN  input' = [input EXCEPT
                        !.running = SubSeq(@, 1, n - 1),
                        !.callback = Some(input.running[n].cb)]
    /\ UNCHANGED <<vars, fvars, borrow, fallback, dispatcher>>

InputNext ==
    \/ \E cb \in Callbacks : on_input(cb)
    \/ \E kind \in InputKinds : dispatch_input(kind)
    \/ callback_returns

InputSpec == WindowInit /\ [][InputNext]_allvars

\* C40: no event that dispatch_input was given after on_input had
\* registered a callback is dropped, also when dispatch_input is called
\* from inside the running callback.
C40_EveryEventDelivered ==
    \A i \in 1..Len(input.dropped) : ~input.dropped[i].registered

====
